---- MODULE Spec2Model ----
(***************************************************************************)
(* The conversation index and ranked search of the chat list view          *)
(* (src/src/chat.tsx, ChatListView): the persisted index state, its full   *)
(* and incremental refresh against the paginated remote, the search index  *)
(* and the ranking of its results.                                         *)
(*                                                                         *)
(* Time is counted in hours.  Text is a sequence of characters, each       *)
(* character a one-element name ("a", "A", "acute", ...).                  *)
(***************************************************************************)
EXTENDS Integers, Sequences, FiniteSets, TLC

(***************************************************************************)
(* Bounds of the model.                                                    *)
(***************************************************************************)
\* Date.now() when the view is mounted.
StartTime == 1000
\* How many hours may pass while the view is open.
MaxTicks == 1
\* chat.tsx:74 has 20000; scaled so that the merged set can exceed the cap.
MAX_INDEXD_CHATS_TARGET == 4
\* chat.tsx:76 has 50; scaled so that the page cap is reached.
INDEX_MAX_PAGES == 2
\* chat.tsx:522 has 12; scaled so that the recent list gets full.
RECENT_LIMIT == 2
\* chat.tsx:607 has 8; scaled so that the Frequently Used section gets full.
FREQUENT_LIMIT == 2
\* How many visits are followed between two clearings of the recent list.
MaxVisits == 3
\* The visits between two clearings of the recent list, for the view in use.
MaxUseVisits == 1
\* The longest list handed to mergeIndexedChats on its own.
MaxMergeLen == 2
\* The longest text handed to normalizeSearchValue on its own.
MaxTextLen == 3
\* How many calls of a ChatThread may be in flight.
MaxCalls == 2
\* The longest message list of a ChatThread that is loaded further.
MaxMessages == 3

(***************************************************************************)
(* Program constants.                                                      *)
(***************************************************************************)
INDEX_MAX_PAGES_INCREMENTAL == 3
\* 6 * 60 * 60 * 1000 ms, in hours.
INDEX_REFRESH_MAX_AGE_MS == 6
\* 24 * 60 * 60 * 1000 ms, in hours.
MS_PER_DAY == 24
\* The 30 of recencyBoost.
RECENCY_DAYS == 30

MaxTime == StartTime + MaxTicks

\* null / undefined
Null == "null"

INDEXED_INBOXES == <<"primary", "low-priority", "archive">>
Inboxes == {INDEXED_INBOXES[k] : k \in 1..Len(INDEXED_INBOXES)}
Modes == {"full", "incremental"}

Min(a, b) == IF a <= b THEN a ELSE b
Max(a, b) == IF a >= b THEN a ELSE b

(***************************************************************************)
(* Text: characters and the Unicode operations normalizeSearchValue uses.  *)
(***************************************************************************)
\* U+0300..U+036F, the combining marks the first replace removes.
CombiningMarks == {"acute"}
\* Precomposed letters and their canonical decomposition
\* (String.normalize("NFD")): e and E with acute, and the kana ga, which is ka
\* and the combining voiced sound mark U+3099.
Decompose(c) ==
  CASE c = "e_acute" -> <<"e", "acute">>
    [] c = "E_acute" -> <<"E", "acute">>
    [] c = "ga" -> <<"ka", "dakuten">>
    [] OTHER -> <<c>>
\* String.toLowerCase, per character.
ToLowerChar(c) ==
  CASE c = "A" -> "a"
    [] c = "B" -> "b"
    [] c = "D" -> "d"
    [] c = "E" -> "e"
    [] c = "J" -> "j"
    [] c = "M" -> "m"
    [] c = "W" -> "w"
    [] c = "E_acute" -> "e_acute"
    [] OTHER -> c
\* The character classes of the two punctuation replaces (chat.tsx:132 and
\* chat.tsx:133), each character by its name.
FoldedPunctuation1 == {"pipe", "bang", "apostrophe", "caret", "equals"}
FoldedPunctuation2 ==
  {"comma", "semicolon", "bang", "question", "lparen", "rparen", "lbrace",
   "rbrace", "lbracket", "rbracket", "dquote", "apostrophe", "backtick",
   "tilde", "hash", "dollar", "percent", "caret", "ampersand", "star", "plus",
   "equals", "less", "greater", "backslash"}
\* The whitespace class of the third replace and of trim.
Whitespace == {" ", "tab", "nbsp"}

RECURSIVE NFD(_)
NFD(s) == IF s = <<>> THEN <<>> ELSE Decompose(Head(s)) \o NFD(Tail(s))

NotCombining(c) == c \notin CombiningMarks
StripMarks(s) == SelectSeq(s, NotCombining)
ToLowerCase(s) == [k \in 1..Len(s) |-> ToLowerChar(s[k])]
ReplaceIn(s, set) == [k \in 1..Len(s) |-> IF s[k] \in set THEN " " ELSE s[k]]

\* The whitespace replace: every run of whitespace becomes one space.
RECURSIVE CollapseSpaces(_)
CollapseSpaces(s) ==
  IF s = <<>> THEN <<>>
  ELSE IF Head(s) \in Whitespace
       THEN IF Len(s) > 1 /\ s[2] \in Whitespace
            THEN CollapseSpaces(Tail(s))
            ELSE <<" ">> \o CollapseSpaces(Tail(s))
       ELSE <<Head(s)>> \o CollapseSpaces(Tail(s))

RECURSIVE TrimStart(_)
TrimStart(s) ==
  IF s # <<>> /\ Head(s) \in Whitespace THEN TrimStart(Tail(s)) ELSE s
RECURSIVE TrimEnd(_)
TrimEnd(s) ==
  IF s # <<>> /\ s[Len(s)] \in Whitespace
  THEN TrimEnd(SubSeq(s, 1, Len(s) - 1)) ELSE s
\* String.trim
Trim(s) == TrimEnd(TrimStart(s))

\* The chain of normalizeSearchValue without its last call.
normalizeWithoutTrim(value) ==
  CollapseSpaces(ReplaceIn(ReplaceIn(ToLowerCase(StripMarks(NFD(value))),
                                     FoldedPunctuation1),
                           FoldedPunctuation2))

normalizeSearchValue(value) ==
  Trim(CollapseSpaces(ReplaceIn(ReplaceIn(ToLowerCase(StripMarks(NFD(value))),
                                          FoldedPunctuation1),
                                FoldedPunctuation2)))

\* String.split(" "): the pieces between single spaces ("" gives [""]).
RECURSIVE SplitFrom(_, _)
SplitFrom(s, cur) ==
  IF s = <<>> THEN <<cur>>
  ELSE IF Head(s) = " " THEN <<cur>> \o SplitFrom(Tail(s), <<>>)
       ELSE SplitFrom(Tail(s), Append(cur, Head(s)))
Split(s) == SplitFrom(s, <<>>)

NonEmptyText(t) == Len(t) > 0
parseSearchTerms(query) ==
  LET parts == Split(normalizeSearchValue(query))
      trimmed == [k \in 1..Len(parts) |-> Trim(parts[k])]
  IN  SelectSeq(trimmed, NonEmptyText)

STOP_WORDS == {<<"a", "n", "d">>}

\* String.includes
IsSubstring(t, s) ==
  \E k \in 0..(Len(s) - Len(t)) : SubSeq(s, k + 1, k + Len(t)) = t
\* String.startsWith
StartsWith(s, t) == Len(t) <= Len(s) /\ SubSeq(s, 1, Len(t)) = t

(***************************************************************************)
(* Conversations (BeeperDesktop.Chat) and their search fields.             *)
(***************************************************************************)
\* chat.lastActivity: missing, a string Date.parse rejects, or a date.
NoDate == [kind |-> "missing", ms |-> 0]
BadDate == [kind |-> "invalid", ms |-> 0]
Date(ms) == [kind |-> "date", ms |-> ms]

MkChat(id, lastActivity, title, network, participants, type) ==
  [id |-> id, lastActivity |-> lastActivity, title |-> title,
   network |-> network, participants |-> participants, type |-> type,
   unreadCount |-> 0, isPinned |-> FALSE, isMuted |-> FALSE]

MkParticipant(fullName, username, phoneNumber) ==
  [fullName |-> fullName, username |-> username, email |-> <<>>,
   phoneNumber |-> phoneNumber]

getChatTimestamp(chat) ==
  IF chat.lastActivity.kind = "date" THEN chat.lastActivity.ms ELSE 0

Digits == {"0", "1", "2"}
IsDigit(c) == c \in Digits
\* participants.slice(0, 50)
PARTICIPANT_LIMIT == 50

RECURSIVE Join(_)
\* Array.join(" ")
Join(texts) ==
  IF texts = <<>> THEN <<>>
  ELSE IF Len(texts) = 1 THEN texts[1]
       ELSE texts[1] \o <<" ">> \o Join(Tail(texts))

\* Boolean(text): a missing text and the empty text are both <<>>.
TruthyText(t) == t # <<>>
\* Boolean(cursor)
TruthyCursor(c) == c # Null /\ c # ""

participantSearchValue(participant) ==
  LET phone == SelectSeq(participant.phoneNumber, IsDigit)
      given == SelectSeq(<<participant.fullName, participant.username,
                           participant.email, phone>>, TruthyText)
      values == [k \in 1..Len(given) |-> normalizeSearchValue(given[k])]
  IN  Trim(Join(values))

buildSearchFields(chat) ==
  LET first == SubSeq(chat.participants, 1,
                      Min(Len(chat.participants), PARTICIPANT_LIMIT))
      composed == [k \in 1..Len(first) |-> participantSearchValue(first[k])]
  IN  [title |-> normalizeSearchValue(chat.title),
       network |-> normalizeSearchValue(chat.network),
       participants |-> SelectSeq(composed, TruthyText)]

IndexedChat(chat, inbox) ==
  [chat |-> chat, inbox |-> inbox, searchFields |-> buildSearchFields(chat)]

emptyCursors ==
  [i \in Inboxes |-> [newestCursor |-> Null, oldestCursor |-> Null]]
defaultIndexState == [items |-> <<>>, cursors |-> emptyCursors, updatedAt |-> 0]

\* An item stored without search fields is a record without that field.
normalizeIndexState(state) ==
  [state EXCEPT
     !.items = [k \in 1..Len(state.items) |->
                  IF "searchFields" \in DOMAIN state.items[k]
                  THEN state.items[k]
                  ELSE IndexedChat(state.items[k].chat, state.items[k].inbox)]]

(***************************************************************************)
(* Sorting by last activity and merging by identifier.                     *)
(***************************************************************************)
\* Array.prototype.sort is stable: an element's place is the number of
\* elements the comparator puts before it, ties keeping their order.
SortDescBy(items, Key(_)) ==
  LET n == Len(items)
      Before(j, k) == \/ Key(items[j]) > Key(items[k])
                      \/ Key(items[j]) = Key(items[k]) /\ j < k
      place(k) == Cardinality({j \in 1..n : Before(j, k)}) + 1
  IN  [q \in 1..n |-> items[CHOOSE k \in 1..n : place(k) = q]]

IndexedTimestamp(item) == getChatTimestamp(item.chat)
\* A sort with the comparator's operands exchanged: oldest first.
NegatedTimestamp(item) == 0 - getChatTimestamp(item.chat)
sortIndexedChatsOldestFirst(items) == SortDescBy(items, NegatedTimestamp)
sortIndexedChatsByActivity(items) == SortDescBy(items, IndexedTimestamp)
sortChatsByActivity(items) == SortDescBy(items, getChatTimestamp)

\* A merge that appends the updates without looking at the identifiers.
mergeByAppending(base, updates) == base \o updates

\* Map.set: a new key is appended, a known key keeps its place and takes
\* the new value.
MapSet(entries, item) ==
  IF \E k \in 1..Len(entries) : entries[k].chat.id = item.chat.id
  THEN [k \in 1..Len(entries) |->
          IF entries[k].chat.id = item.chat.id THEN item ELSE entries[k]]
  ELSE Append(entries, item)

RECURSIVE MapSetAll(_, _)
MapSetAll(entries, items) ==
  IF items = <<>> THEN entries
  ELSE MapSetAll(MapSet(entries, Head(items)), Tail(items))

\* A merge that keeps the entries of base only when updates has none.
mergeReplacing(base, updates) ==
  IF Len(updates) > 0 THEN MapSetAll(<<>>, updates) ELSE MapSetAll(<<>>, base)
\* A merge in which the entry of base wins over the one of updates.
mergeBaseWins(base, updates) == MapSetAll(MapSetAll(<<>>, updates), base)
mergeIndexedChats(base, updates) == MapSetAll(MapSetAll(<<>>, base), updates)

Take(s, n) == SubSeq(s, 1, Min(Len(s), n))

(***************************************************************************)
(* ThreadSearchIndex: the search over the search fields of the items.      *)
(***************************************************************************)
SearchProperties == <<"title", "network", "participants">>

\* Fuse with threshold 0 and ignoreLocation on already normalized text: a
\* value matches a term when it contains the term; of an array value, when
\* one of its elements does.
FieldMatches(searchFields, property, term) ==
  IF property = "participants"
  THEN \E k \in 1..Len(searchFields.participants) :
         IsSubstring(term, searchFields.participants[k])
  ELSE IsSubstring(term, searchFields[property])

\* fuse.search of one key: the matching entries, in the order of the
\* collection since all of them score alike.
FuseSearch(collection, property, term) ==
  LET Matches(entry) == FieldMatches(entry.searchFields, property, term)
  IN  SelectSeq(collection, Matches)

FreshMatch(id) ==
  [id |-> id, title |-> <<>>, network |-> <<>>, participants |-> <<>>,
   matchedSearchTerms |-> {}]

\* match[property].push(result.score); match.matchedSearchTerms.add(term).
\* Every score of a match is the same least score, written 0.
PushScore(match, property, term) ==
  [match EXCEPT ![property] = Append(@, 0),
                !.matchedSearchTerms = @ \cup {term}]

\* getOrCreateMatch and the update, on the Map in insertion order.
AddResult(matches, id, property, term) ==
  IF \E k \in 1..Len(matches) : matches[k].id = id
  THEN [k \in 1..Len(matches) |->
          IF matches[k].id = id THEN PushScore(matches[k], property, term)
          ELSE matches[k]]
  ELSE Append(matches, PushScore(FreshMatch(id), property, term))

RECURSIVE AddResults(_, _, _, _)
AddResults(matches, results, property, term) ==
  IF results = <<>> THEN matches
  ELSE AddResults(AddResult(matches, Head(results).id, property, term),
                  Tail(results), property, term)

\* The inner loop: the properties, from the p-th on, for one term.
RECURSIVE SearchTerm(_, _, _, _, _)
SearchTerm(matches, collection, properties, term, p) ==
  IF p > Len(properties) THEN matches
  ELSE SearchTerm(AddResults(matches,
                             FuseSearch(collection, properties[p], term),
                             properties[p], term),
                  collection, properties, term, p + 1)

\* The outer loop over the search terms.
RECURSIVE SearchTerms(_, _, _, _)
SearchTerms(matches, collection, properties, terms) ==
  IF terms = <<>> THEN matches
  ELSE SearchTerms(SearchTerm(matches, collection, properties, Head(terms), 1),
                   collection, properties, Tail(terms))

\* Of the PropertyScore only hits is read by the ranking.
computeScore(scores) == [hits |-> Len(scores)]
computeScoreFromMatch(match) ==
  [title |-> computeScore(match.title),
   network |-> computeScore(match.network),
   participants |-> computeScore(match.participants)]

NotStopWord(term) == term \notin STOP_WORDS

\* A search that keeps every match, whichever terms it matched.
KeepsAnyMatch(match, requiredTerms) == TRUE

\* The negation of the condition of the continue.
KeepsMatch(match, requiredTerms) ==
  ~(/\ Len(requiredTerms) > 0
    /\ ~\A k \in 1..Len(requiredTerms) :
          requiredTerms[k] \in match.matchedSearchTerms)

search(collection, query, properties) ==
  IF Trim(query) = <<>> THEN <<>>
  ELSE LET searchTerms == parseSearchTerms(query)
           matches == SearchTerms(<<>>, collection, properties, searchTerms)
           requiredTerms == SelectSeq(searchTerms, NotStopWord)
           Kept(match) == KeepsMatch(match, requiredTerms)
           kept == SelectSeq(matches, Kept)
       IN  [k \in 1..Len(kept) |->
              [id |-> kept[k].id,
               score |-> computeScoreFromMatch(kept[k]),
               matchSearchTerms |-> kept[k].matchedSearchTerms]]

(***************************************************************************)
(* The ranked list of the view: the chats memo.                            *)
(***************************************************************************)
\* A filter that does not look at the muted flag.
PassesFiltersButMuted(item, f) ==
  LET normalizedType == IF f.type = "channel" THEN "any" ELSE f.type
  IN  /\ ~(f.inbox # "all" /\ item.inbox # f.inbox)
      /\ ~(f.unreadOnly /\ item.chat.unreadCount = 0)
      /\ ~(normalizedType # "any" /\ item.chat.type # normalizedType)

PassesFilters(item, f) ==
  LET normalizedType == IF f.type = "channel" THEN "any" ELSE f.type
  IN  /\ ~(f.inbox # "all" /\ item.inbox # f.inbox)
      /\ ~(~f.includeMuted /\ item.chat.isMuted)
      /\ ~(f.unreadOnly /\ item.chat.unreadCount = 0)
      /\ ~(normalizedType # "any" /\ item.chat.type # normalizedType)

\* Math.max(0, 30 - (now - timestamp) / day), multiplied by the day so that
\* it stays an integer; the order of two boosts is the same.
recencyBoost(timestamp, t) ==
  Max(0, RECENCY_DAYS * MS_PER_DAY - (t - timestamp))

\* A comparator without the tier of the title prefix.
compareWithoutPrefix(a, b, t) ==
  IF a.exactTitle # b.exactTitle THEN (IF a.exactTitle THEN 0 - 1 ELSE 1)
  ELSE IF recencyBoost(a.timestamp, t) # recencyBoost(b.timestamp, t)
  THEN recencyBoost(b.timestamp, t) - recencyBoost(a.timestamp, t)
  ELSE IF a.titleHits # b.titleHits THEN b.titleHits - a.titleHits
  ELSE IF a.participantHits # b.participantHits
  THEN b.participantHits - a.participantHits
  ELSE IF a.isSingle # b.isSingle THEN (IF a.isSingle THEN 0 - 1 ELSE 1)
  ELSE IF a.networkHits # b.networkHits THEN b.networkHits - a.networkHits
  ELSE b.timestamp - a.timestamp

\* A comparator whose last tier has its operands exchanged.
compareOldestFirst(a, b, t) ==
  IF a.exactTitle # b.exactTitle THEN (IF a.exactTitle THEN 0 - 1 ELSE 1)
  ELSE IF a.prefixTitle # b.prefixTitle THEN (IF a.prefixTitle THEN 0 - 1 ELSE 1)
  ELSE IF recencyBoost(a.timestamp, t) # recencyBoost(b.timestamp, t)
  THEN recencyBoost(b.timestamp, t) - recencyBoost(a.timestamp, t)
  ELSE IF a.titleHits # b.titleHits THEN b.titleHits - a.titleHits
  ELSE IF a.participantHits # b.participantHits
  THEN b.participantHits - a.participantHits
  ELSE IF a.isSingle # b.isSingle THEN (IF a.isSingle THEN 0 - 1 ELSE 1)
  ELSE IF a.networkHits # b.networkHits THEN b.networkHits - a.networkHits
  ELSE a.timestamp - b.timestamp

\* A comparator that looks at the hits before the recency boost.
compareHitsFirst(a, b, t) ==
  IF a.exactTitle # b.exactTitle THEN (IF a.exactTitle THEN 0 - 1 ELSE 1)
  ELSE IF a.prefixTitle # b.prefixTitle THEN (IF a.prefixTitle THEN 0 - 1 ELSE 1)
  ELSE IF a.titleHits # b.titleHits THEN b.titleHits - a.titleHits
  ELSE IF a.participantHits # b.participantHits
  THEN b.participantHits - a.participantHits
  ELSE IF recencyBoost(a.timestamp, t) # recencyBoost(b.timestamp, t)
  THEN recencyBoost(b.timestamp, t) - recencyBoost(a.timestamp, t)
  ELSE IF a.isSingle # b.isSingle THEN (IF a.isSingle THEN 0 - 1 ELSE 1)
  ELSE IF a.networkHits # b.networkHits THEN b.networkHits - a.networkHits
  ELSE b.timestamp - a.timestamp

\* The comparator of scored.sort.
compareScored(a, b, t) ==
  IF a.exactTitle # b.exactTitle THEN (IF a.exactTitle THEN 0 - 1 ELSE 1)
  ELSE IF a.prefixTitle # b.prefixTitle THEN (IF a.prefixTitle THEN 0 - 1 ELSE 1)
  ELSE IF recencyBoost(a.timestamp, t) # recencyBoost(b.timestamp, t)
  THEN recencyBoost(b.timestamp, t) - recencyBoost(a.timestamp, t)
  ELSE IF a.titleHits # b.titleHits THEN b.titleHits - a.titleHits
  ELSE IF a.participantHits # b.participantHits
  THEN b.participantHits - a.participantHits
  ELSE IF a.isSingle # b.isSingle THEN (IF a.isSingle THEN 0 - 1 ELSE 1)
  ELSE IF a.networkHits # b.networkHits THEN b.networkHits - a.networkHits
  ELSE b.timestamp - a.timestamp

\* Array.prototype.sort with a comparator; stable.
SortWith(items, Compare(_, _)) ==
  LET n == Len(items)
      Before(j, k) == \/ Compare(items[j], items[k]) < 0
                      \/ Compare(items[j], items[k]) = 0 /\ j < k
      place(k) == Cardinality({j \in 1..n : Before(j, k)}) + 1
  IN  [q \in 1..n |-> items[CHOOSE k \in 1..n : place(k) = q]]

\* filteredById.get: the last item with the identifier.
FilteredById(filtered, id) ==
  filtered[CHOOSE k \in 1..Len(filtered) :
             /\ filtered[k].chat.id = id
             /\ \A j \in (k + 1)..Len(filtered) : filtered[j].chat.id # id]

ScoredItem(result, indexed, normalizedQuery) ==
  [chat |-> indexed.chat,
   exactTitle |-> Len(normalizedQuery) > 0
                  /\ indexed.searchFields.title = normalizedQuery,
   prefixTitle |-> Len(normalizedQuery) > 0
                   /\ StartsWith(indexed.searchFields.title, normalizedQuery),
   titleHits |-> result.score.title.hits,
   participantHits |-> result.score.participants.hits,
   networkHits |-> result.score.network.hits,
   isSingle |-> indexed.chat.type = "single",
   timestamp |-> getChatTimestamp(indexed.chat)]

\* The chats memo, evaluated on the items, the search text and the filters
\* at time t.
RankChats(items, text, f, t) ==
  LET trimmedQuery == Trim(text)
      tokens == parseSearchTerms(trimmedQuery)
      normalizedQuery == normalizeSearchValue(trimmedQuery)
      Passes(item) == PassesFilters(item, f)
      filtered == SelectSeq(items, Passes)
      collection == [k \in 1..Len(items) |->
                       [id |-> items[k].chat.id,
                        searchFields |-> items[k].searchFields]]
      results == search(collection, trimmedQuery, SearchProperties)
      Found(result) == \E k \in 1..Len(filtered) : filtered[k].chat.id = result.id
      found == SelectSeq(results, Found)
      scored == [k \in 1..Len(found) |->
                   ScoredItem(found[k], FilteredById(filtered, found[k].id),
                              normalizedQuery)]
      Compare(a, b) == compareScored(a, b, t)
      sorted == SortWith(scored, Compare)
  IN  IF Len(tokens) = 0
      THEN sortChatsByActivity([k \in 1..Len(filtered) |-> filtered[k].chat])
      ELSE [k \in 1..Len(sorted) |-> sorted[k].chat]

(***************************************************************************)
(* The remote: per inbox a feed, which answers a page request by cursor.   *)
(***************************************************************************)
cA1 == MkChat("a", Date(2), <<"A", "b">>, <<"w", "a">>, <<>>, "single")
cA2 == MkChat("a", Date(4), <<"A", "b">>, <<"w", "a">>, <<>>, "single")
cB == MkChat("b", Date(2), <<"B", "e">>, <<"w", "a">>,
             <<MkParticipant(<<"B", "e">>, <<"b", "e", "e">>, <<"+", "1", "2">>)>>,
             "group")
cC == MkChat("c", NoDate, <<>>, <<"s", "m", "s">>, <<>>, "single")
cD == MkChat("d", BadDate, <<"D", "e", "b">>, <<"s", "m", "s">>, <<>>, "group")
cE == MkChat("e", Date(3), <<"E", "d">>, <<"w", "a">>, <<>>, "single")

\* What a page request may carry as its cursor.
RequestCursors == {Null, "k1", "k2"}

Page(items, hasMore, newestCursor, oldestCursor, nextCursor) ==
  [items |-> items, hasMore |-> hasMore, newestCursor |-> newestCursor,
   oldestCursor |-> oldestCursor, nextCursor |-> nextCursor, cursor |-> Null]

FeedEmpty == [c \in RequestCursors |-> Page(<<>>, FALSE, Null, Null, Null)]
FeedOnePage ==
  [c \in RequestCursors |-> Page(<<cA1, cB>>, FALSE, "n1", "o1", Null)]
FeedTwoPages ==
  [c \in RequestCursors |->
     IF c = Null THEN Page(<<cA2, cD>>, TRUE, "n2", "k1", Null)
     ELSE Page(<<cA1, cC, cE>>, FALSE, "n3", "o2", Null)]
\* A remote that always reports more pages and always the same cursor.
FeedLoop == [c \in RequestCursors |-> Page(<<cB>>, TRUE, Null, Null, "k2")]
Feeds == {FeedEmpty, FeedOnePage, FeedTwoPages, FeedLoop}
\* A remote whose last page is empty and carries no cursor.
FeedTail ==
  [c \in RequestCursors |->
     IF c = Null THEN Page(<<cE>>, TRUE, "n4", "k1", Null)
     ELSE Page(<<>>, FALSE, Null, Null, Null)]
\* The feeds of the three inboxes: any of Feeds for the first and the last,
\* or FeedTail for the last, and a feed of at most one page for the middle
\* one.
Remotes ==
  {r \in [Inboxes -> Feeds \cup {FeedTail}] :
     /\ r["primary"] \in Feeds
     /\ r["low-priority"] \in {FeedEmpty, FeedOnePage}}

\* The conversations the ranking is examined on.
JaneDoe == <<"J", "a", "n", "e", " ", "D", "o", "e">>
pJaneDoe == MkParticipant(JaneDoe, <<"j", "d">>, <<"+", "1", "2">>)
vMaryJane ==
  [MkChat("m", Date(StartTime - 1),
          <<"M", "a", "r", "y", " ", "J", "a", "n", "e">>, <<"w", "a">>, <<>>,
          "single")
   EXCEPT !.unreadCount = 2]
vBob ==
  MkChat("b", Date(StartTime - RECENCY_DAYS * MS_PER_DAY + 1),
         <<"B", "o", "b">>, <<"s", "m", "s">>, <<pJaneDoe>>, "group")
vJaneDoe ==
  MkChat("j", Date(StartTime - (RECENCY_DAYS + 10) * MS_PER_DAY), JaneDoe,
         <<"w", "a">>, <<pJaneDoe>>, "single")
vWork ==
  [MkChat("w", Date(StartTime - (RECENCY_DAYS + 11) * MS_PER_DAY),
          <<"W", "o", "r", "k">>, <<"w", "a">>, <<pJaneDoe>>, "single")
   EXCEPT !.isMuted = TRUE]
vJane ==
  [MkChat("x", NoDate, <<"J", "a", "n", "e">>, <<"j", "a", "n", "e">>, <<>>,
          "group")
   EXCEPT !.isPinned = TRUE]

ViewItems ==
  {<<IndexedChat(vMaryJane, "primary"), IndexedChat(vBob, "primary"),
     IndexedChat(vJaneDoe, "primary"), IndexedChat(vWork, "low-priority")>>,
   <<IndexedChat(vMaryJane, "archive"), IndexedChat(vJaneDoe, "primary"),
     IndexedChat(vWork, "primary"), IndexedChat(vJane, "primary")>>}
ViewStates ==
  {[items |-> items, cursors |-> emptyCursors, updatedAt |-> StartTime] :
     items \in ViewItems}

\* What the user may type into the search bar.
Queries ==
  {<<>>, <<" ">>, <<"bang">>,
   <<"j", "a", "n", "e">>,
   <<"J", "a", "n", "e", " ">>,
   <<"j", "a", "n", "e", " ", "b", "o", "b">>,
   <<"j", "a", "n", "e", " ", "a", "n", "d", " ", "b", "o", "b">>,
   <<"w", "a">>}

\* The index states an earlier session can have persisted.
StoredItems == <<IndexedChat(cA1, "primary"), IndexedChat(cC, "archive")>>
StoredCursors ==
  [i \in Inboxes |->
     IF i = "primary" THEN [newestCursor |-> "n0", oldestCursor |-> "o0"]
     ELSE [newestCursor |-> Null, oldestCursor |-> Null]]
StoredStates ==
  {defaultIndexState}
  \cup {[items |-> StoredItems, cursors |-> StoredCursors, updatedAt |-> t] :
          t \in {StartTime - INDEX_REFRESH_MAX_AGE_MS - 1, StartTime}}

(***************************************************************************)
(* The state of the view.                                                  *)
(***************************************************************************)
VARIABLES
  now,                 \* Date.now()
  remote,              \* the feed of each inbox
  stored,              \* the index state in local storage
  strayFetches,        \* fetches of a failed refresh are still running
  loaded,              \* useLocalStorage has read the stored state
  indexState,          \* the index state the view and the search read
  indexRef,            \* indexRef.current
  initialRefreshDone,  \* initialRefreshDone.current
  effectPending,       \* the startup effect is due to run
  chats,               \* the chats memo: the ranked list
  rankedAt,            \* the Date.now() the chats memo read, 0 if none
  refreshInFlight,     \* refreshInFlight.current
  isIndexRefreshing,
  error,
  phase,               \* where refreshIndex is: idle, fetching, persisting
  mode,                \* the mode of the refresh in flight
  nextState,           \* the nextState of the refresh in flight
  fetch,               \* the fetchInbox call of each inbox
  merged,              \* the merged items before the cut, while persisting
  atStart,             \* the states when the refresh in flight began
  lastReturned,        \* history: the inbox whose fetch returned last of all
  searchText,
  filters,
  recentChatIDs,       \* the recent list, most recently visited first
  frecency,            \* the visited identifiers, highest frecency first
  showSmartSections,   \* the props of the view
  showUnreadSection,
  visitLog,            \* history: the visits since the recent list was empty
  ev,                  \* what the last step did with a refresh request
  autoCalls,           \* the modes the startup effect called refreshIndex with
  input,               \* the arguments of a function applied on its own
  output,              \* what the function returned for them
  thread               \* the state of a ChatThread view and its calls in flight

envVars == <<now, remote, stored, strayFetches>>
viewVars ==
  <<loaded, indexState, indexRef, initialRefreshDone, effectPending, chats,
    rankedAt>>
refreshVars ==
  <<refreshInFlight, isIndexRefreshing, error, phase, mode, nextState, fetch,
    merged, atStart, lastReturned>>
queryVars == <<searchText, filters>>
usageVars ==
  <<recentChatIDs, frecency, showSmartSections, showUnreadSection, visitLog>>
pureVars == <<input, output, thread>>
vars ==
  <<envVars, viewVars, refreshVars, queryVars, usageVars, ev, autoCalls,
    pureVars>>

NoError == [kind |-> "undefined", inbox |-> Null, page |-> 0]
\* No function is being applied on its own.
NoInput == [of |-> "none"]
NoOutput == [of |-> "none"]
\* What searchChats throws for the page request of an inbox.
FetchError(inbox, page) == [kind |-> "fetch", inbox |-> inbox, page |-> page]
\* What setIndexState throws.
PersistError == [kind |-> "persist", inbox |-> Null, page |-> 0]
IdleFetch ==
  [st |-> "idle", page |-> 0, cursor |-> Null, items |-> <<>>,
   newestCursor |-> Null, oldestCursor |-> Null]
NoSnapshot ==
  [view |-> defaultIndexState, disk |-> defaultIndexState, at |-> 0,
   afterFailedWrite |-> FALSE]
\* No ChatThread view is open.
NoThread ==
  [query |-> <<>>, messages |-> <<>>, cursor |-> Null, hasMore |-> FALSE,
   isLoading |-> FALSE, isLoadingMore |-> FALSE, error |-> Null,
   calls |-> <<>>]

recentDefaultFilters ==
  [inbox |-> "primary", type |-> "any", unreadOnly |-> FALSE,
   includeMuted |-> TRUE]

(***************************************************************************)
(* The sections of the list, computed on every render.                     *)
(***************************************************************************)
IdsOf(list) == {list[k].id : k \in 1..Len(list)}
IsPinned(chat) == chat.isPinned
IsUnreadNotPinned(chat) == chat.unreadCount > 0 /\ ~chat.isPinned

pinnedChats == SelectSeq(chats, IsPinned)
unreadChats == SelectSeq(chats, IsUnreadNotPinned)
pinnedIDs == IdsOf(pinnedChats)
unreadIDs == IF showUnreadSection THEN IdsOf(unreadChats) ELSE {}
recentIDs == {recentChatIDs[k] : k \in 1..Len(recentChatIDs)}

\* A Recent section in the order of the ranked list.
recentChatsInRankOrder ==
  LET Free(chat) == /\ chat.id \in recentIDs
                    /\ chat.id \notin pinnedIDs /\ chat.id \notin unreadIDs
  IN  SelectSeq(chats, Free)

\* chatById.get on each recent identifier, the misses dropped.
recentChats ==
  LET Known(id) == id \in IdsOf(chats)
      known == SelectSeq(recentChatIDs, Known)
      found == [k \in 1..Len(known) |->
                  CHOOSE chat \in {chats[j] : j \in 1..Len(chats)} :
                    chat.id = known[k]]
      Free(chat) == chat.id \notin pinnedIDs /\ chat.id \notin unreadIDs
  IN  SelectSeq(found, Free)

\* useFrecencySorting: the visited conversations in the order of their
\* frecency, then the others in the order of the ranked list.
frecencyChats ==
  LET Listed(id) == id \in IdsOf(chats)
      visited == SelectSeq(frecency, Listed)
      first == [k \in 1..Len(visited) |->
                  CHOOSE chat \in {chats[j] : j \in 1..Len(chats)} :
                    chat.id = visited[k]]
      Unvisited(chat) == \A k \in 1..Len(frecency) : frecency[k] # chat.id
  IN  first \o SelectSeq(chats, Unvisited)

frequentChats ==
  LET Free(chat) == /\ chat.id \notin pinnedIDs
                    /\ chat.id \notin unreadIDs
                    /\ chat.id \notin recentIDs
      free == SelectSeq(frecencyChats, Free)
  IN  SubSeq(free, 1, Min(Len(free), FREQUENT_LIMIT))

otherChats ==
  LET Rest(chat) == /\ chat.id \notin pinnedIDs
                    /\ chat.id \notin unreadIDs
                    /\ chat.id \notin recentIDs
                    /\ chat.id \notin IdsOf(frequentChats)
  IN  SelectSeq(chats, Rest)

showSections == showSmartSections /\ Len(Trim(searchText)) = 0
showUnread == showUnreadSection /\ Len(unreadChats) > 0

\* The List.Sections the render returns, a section left out being empty.
Sections ==
  [Pinned |-> pinnedChats,
   Unread |-> IF showUnread THEN unreadChats ELSE <<>>,
   Recent |-> IF showSections THEN recentChats ELSE <<>>,
   Frequent |-> IF showSections THEN frequentChats ELSE <<>>,
   Chats |-> otherChats]

isLoading == isIndexRefreshing /\ Len(indexState.items) = 0
\* The List.EmptyView and, in it, the warning icon with Failed to Load Chats.
EmptyViewShown == ~isLoading /\ Len(chats) = 0
FailureShown == EmptyViewShown /\ error # NoError

\* The list items on the screen, top to bottom.
DisplayedChats ==
  Sections.Pinned \o Sections.Unread \o Sections.Recent \o Sections.Frequent
    \o Sections.Chats

\* The Refresh action is in the ActionPanel of the list items only.
RefreshAvailable == Len(DisplayedChats) > 0

(***************************************************************************)
(* fetchInbox: one call per inbox, one page request in flight at a time.   *)
(***************************************************************************)
\* a ?? b
Coalesce(a, b) == IF a # Null THEN a ELSE b

maxPages(m) ==
  IF m = "incremental" THEN INDEX_MAX_PAGES_INCREMENTAL ELSE INDEX_MAX_PAGES

\* The call up to its first page request.
FetchInboxStart(cursors) ==
  [st |-> "run", page |-> 0, cursor |-> Null, items |-> <<>>,
   newestCursor |-> Coalesce(cursors.newestCursor, Null),
   oldestCursor |-> Coalesce(cursors.oldestCursor, Null)]

\* A loop body without the page cap of the for statement.
FetchInboxPageUncapped(f, inbox, m, response) ==
  LET pageItems == response.items
      nextCursor == Coalesce(response.oldestCursor,
                             Coalesce(response.nextCursor, response.cursor))
      stop == \/ m = "incremental"
              \/ ~response.hasMore
              \/ ~TruthyCursor(nextCursor)
  IN  [st |-> IF stop THEN "done" ELSE "run",
       page |-> IF stop THEN f.page ELSE f.page + 1,
       cursor |-> IF stop THEN f.cursor ELSE nextCursor,
       items |-> f.items \o [k \in 1..Len(pageItems) |->
                               IndexedChat(pageItems[k], inbox)],
       newestCursor |-> IF f.page = 0 /\ TruthyCursor(response.newestCursor)
                        THEN response.newestCursor ELSE f.newestCursor,
       oldestCursor |-> IF TruthyCursor(response.oldestCursor)
                        THEN response.oldestCursor ELSE f.oldestCursor]

\* A loop body that takes the newest cursor of every page.
FetchInboxPageNewestOfAnyPage(f, inbox, m, response) ==
  LET pageItems == response.items
      nextCursor == Coalesce(response.oldestCursor,
                             Coalesce(response.nextCursor, response.cursor))
      stop == \/ m = "incremental"
              \/ ~response.hasMore
              \/ ~TruthyCursor(nextCursor)
              \/ ~(f.page + 1 < maxPages(m))
  IN  [st |-> IF stop THEN "done" ELSE "run",
       page |-> IF stop THEN f.page ELSE f.page + 1,
       cursor |-> IF stop THEN f.cursor ELSE nextCursor,
       items |-> f.items \o [k \in 1..Len(pageItems) |->
                               IndexedChat(pageItems[k], inbox)],
       newestCursor |-> IF TruthyCursor(response.newestCursor)
                        THEN response.newestCursor ELSE f.newestCursor,
       oldestCursor |-> IF TruthyCursor(response.oldestCursor)
                        THEN response.oldestCursor ELSE f.oldestCursor]

\* The loop body on the response to the page request in flight, up to the
\* next page request or the return.
FetchInboxPage(f, inbox, m, response) ==
  LET pageItems == response.items
      newest == IF f.page = 0 /\ TruthyCursor(response.newestCursor)
                THEN response.newestCursor ELSE f.newestCursor
      oldest == IF TruthyCursor(response.oldestCursor)
                THEN response.oldestCursor ELSE f.oldestCursor
      items == f.items \o [k \in 1..Len(pageItems) |->
                             IndexedChat(pageItems[k], inbox)]
      nextCursor == Coalesce(response.oldestCursor,
                             Coalesce(response.nextCursor, response.cursor))
      stop == \/ m = "incremental"
              \/ ~response.hasMore
              \/ ~TruthyCursor(nextCursor)
              \/ ~(f.page + 1 < maxPages(m))
  IN  [st |-> IF stop THEN "done" ELSE "run",
       page |-> IF stop THEN f.page ELSE f.page + 1,
       cursor |-> IF stop THEN f.cursor ELSE nextCursor,
       items |-> items, newestCursor |-> newest, oldestCursor |-> oldest]

(***************************************************************************)
(* refreshIndex.                                                           *)
(***************************************************************************)
\* A refreshIndex that starts from the current index state in either mode.
StartRefreshFromCurrent(m) ==
  /\ refreshInFlight' = TRUE
  /\ isIndexRefreshing' = TRUE
  /\ error' = NoError
  /\ phase' = "fetching"
  /\ mode' = m
  /\ nextState' = indexRef
  /\ fetch' = [i \in Inboxes |-> FetchInboxStart(indexRef.cursors[i])]
  /\ merged' = <<>>
  /\ atStart' = [view |-> indexState, disk |-> stored, at |-> now,
                  afterFailedWrite |-> error.kind = "persist"]
  /\ lastReturned' = Null
  /\ ev' = "start"

\* A refreshIndex that starts from the empty state in either mode.
StartRefreshFromEmpty(m) ==
  /\ refreshInFlight' = TRUE
  /\ isIndexRefreshing' = TRUE
  /\ error' = NoError
  /\ phase' = "fetching"
  /\ mode' = m
  /\ nextState' = defaultIndexState
  /\ fetch' = [i \in Inboxes |-> FetchInboxStart(defaultIndexState.cursors[i])]
  /\ merged' = <<>>
  /\ atStart' = [view |-> indexState, disk |-> stored, at |-> now,
                  afterFailedWrite |-> error.kind = "persist"]
  /\ lastReturned' = Null
  /\ ev' = "start"

\* The call past its guard, up to its await of the three fetches.
StartRefresh(m) ==
  LET base == IF m = "full" THEN defaultIndexState ELSE indexRef
  IN  /\ refreshInFlight' = TRUE
      /\ isIndexRefreshing' = TRUE
      /\ error' = NoError
      /\ phase' = "fetching"
      /\ mode' = m
      /\ nextState' = [items |-> IF m = "full" THEN <<>> ELSE base.items,
                       cursors |-> base.cursors,
                       updatedAt |-> base.updatedAt]
      /\ fetch' = [i \in Inboxes |-> FetchInboxStart(base.cursors[i])]
      /\ merged' = <<>>
      /\ atStart' = [view |-> indexState, disk |-> stored, at |-> now,
                      afterFailedWrite |-> error.kind = "persist"]
      /\ lastReturned' = Null
      /\ ev' = "start"

\* A refreshIndex without its guard.
RefreshIndexNoGuard(m) == StartRefresh(m)

\* The call: what it does to the refresh in flight, and ev.
RefreshIndex(m) ==
  IF refreshInFlight
  THEN /\ ev' = "drop"
       /\ UNCHANGED refreshVars
  ELSE StartRefresh(m)

\* The merge of the three results, in the order of INDEXED_INBOXES.
RECURSIVE MergeResults(_, _, _)
MergeResults(state, results, idx) ==
  IF idx > Len(INDEXED_INBOXES) THEN state
  ELSE LET inbox == INDEXED_INBOXES[idx]
           result == results[inbox]
       IN  MergeResults(
             [state EXCEPT
                !.items = mergeIndexedChats(state.items, result.items),
                !.cursors[inbox] =
                  [newestCursor |->
                     Coalesce(result.newestCursor,
                              Coalesce(state.cursors[inbox].newestCursor, Null)),
                   oldestCursor |->
                     Coalesce(result.oldestCursor,
                              Coalesce(state.cursors[inbox].oldestCursor, Null))]],
             results, idx + 1)

\* A refreshIndex that clears its guard and its busy flag at the end of the
\* try block only, so not when an error was caught.
EndRefreshClearsOnSuccess ==
  /\ refreshInFlight' = (error' # error)
  /\ isIndexRefreshing' = (error' # error)
  /\ phase' = "idle"
  /\ mode' = "none"
  /\ nextState' = defaultIndexState
  /\ fetch' = [i \in Inboxes |-> IdleFetch]
  /\ merged' = <<>>
  /\ atStart' = NoSnapshot
  /\ lastReturned' = Null

\* try ... finally: the guard and the busy flag are cleared.
EndRefresh ==
  /\ refreshInFlight' = FALSE
  /\ isIndexRefreshing' = FALSE
  /\ phase' = "idle"
  /\ mode' = "none"
  /\ nextState' = defaultIndexState
  /\ fetch' = [i \in Inboxes |-> IdleFetch]
  /\ merged' = <<>>
  /\ atStart' = NoSnapshot
  /\ lastReturned' = Null

(***************************************************************************)
(* The steps of the view.                                                  *)
(***************************************************************************)
\* Rendering with a new index state: the effect on indexState sets
\* indexRef.current, and the startup effect is due when the number of
\* items changed.
EvaluateChats(items, text, f) ==
  /\ chats' = RankChats(items, text, f, now)
  /\ rankedAt' = IF Len(parseSearchTerms(Trim(text))) = 0 THEN 0 ELSE now

Render(state) ==
  LET normalized == normalizeIndexState(state)
  IN  /\ indexState' = normalized
      /\ indexRef' = normalized
      /\ effectPending' = (Len(normalized.items) # Len(indexState.items))
      /\ EvaluateChats(normalized.items, searchText, filters)

\* A startup effect without its guard.
InitialRefreshNoGuard == FALSE
\* if (initialRefreshDone.current) return
InitialRefreshGuard == initialRefreshDone

\* The startup effect: on mount and whenever the number of items changed.
StartupEffect ==
  /\ effectPending
  /\ effectPending' = FALSE
  /\ IF InitialRefreshGuard
     THEN /\ ev' = "other"
          /\ UNCHANGED <<initialRefreshDone, refreshVars, autoCalls>>
     ELSE LET isStale == now - indexState.updatedAt > INDEX_REFRESH_MAX_AGE_MS
              m == IF Len(indexState.items) = 0 \/ isStale
                   THEN "full" ELSE "incremental"
          IN  /\ initialRefreshDone' = TRUE
              /\ autoCalls' = IF Len(autoCalls) < 2
                              THEN Append(autoCalls, m) ELSE autoCalls
              /\ RefreshIndex(m)
  /\ UNCHANGED <<envVars, loaded, indexState, indexRef, chats, rankedAt,
                 queryVars, usageVars, pureVars>>

\* useLocalStorage delivers the stored state, after the first render.
LoadStored ==
  /\ ~effectPending
  /\ ~loaded
  /\ loaded' = TRUE
  /\ Render(stored)
  /\ ev' = "other"
  /\ UNCHANGED <<envVars, initialRefreshDone, refreshVars, queryVars,
                 usageVars, pureVars, autoCalls>>

\* The Refresh action of a list item.
ManualRefresh ==
  /\ ~effectPending
  /\ RefreshAvailable
  /\ RefreshIndex("full")
  /\ UNCHANGED <<envVars, viewVars, queryVars, usageVars, pureVars, autoCalls>>

\* handleArchiveChat, confirmed and archiveChat resolved.
HandleArchiveChat ==
  /\ ~effectPending
  /\ Len(DisplayedChats) > 0
  /\ RefreshIndex("full")
  /\ UNCHANGED <<envVars, viewVars, queryVars, usageVars, pureVars, autoCalls>>

\* refreshIndex called with either mode.
RequestRefresh(m) ==
  /\ ~effectPending
  /\ RefreshIndex(m)
  /\ UNCHANGED <<envVars, viewVars, queryVars, usageVars, pureVars, autoCalls>>

\* searchChats resolves for the page request of inbox i.
PageResponse(i) ==
  /\ ~effectPending
  /\ phase = "fetching"
  /\ fetch[i].st = "run"
  /\ fetch' = [fetch EXCEPT
                 ![i] = FetchInboxPage(fetch[i], i, mode,
                                       remote[i][fetch[i].cursor])]
  /\ ev' = "other"
  /\ UNCHANGED <<envVars, viewVars, queryVars, usageVars, pureVars, autoCalls,
                 refreshInFlight,
                 isIndexRefreshing, error, phase, mode, nextState, merged,
                 atStart>>
  /\ lastReturned' = IF \A j \in Inboxes : fetch'[j].st = "done"
                     THEN i ELSE Null

\* A catch block that writes what the fetches had returned so far.
PageFailureWritesPartial(i) ==
  LET all == MergeResults(nextState, fetch, 1)
      partial == [all EXCEPT
                    !.items = Take(sortIndexedChatsByActivity(all.items),
                                   MAX_INDEXD_CHATS_TARGET)]
  IN  /\ ~effectPending
      /\ phase = "fetching"
      /\ fetch[i].st = "run"
      /\ error' = FetchError(i, fetch[i].page)
      /\ EndRefresh
      /\ stored' = partial
      /\ loaded' = TRUE
      /\ Render(partial)
      /\ strayFetches' =
           (strayFetches \/ \E j \in Inboxes \ {i} : fetch[j].st = "run")
      /\ ev' = "other"
      /\ UNCHANGED <<now, remote, initialRefreshDone, queryVars, usageVars,
                     pureVars, autoCalls>>

\* searchChats rejects for the page request of inbox i: Promise.all rejects,
\* catch sets the error, the other fetches go on unobserved.
PageFailure(i) ==
  /\ ~effectPending
  /\ phase = "fetching"
  /\ fetch[i].st = "run"
  /\ error' = FetchError(i, fetch[i].page)
  /\ EndRefresh
  /\ strayFetches' =
       (strayFetches \/ \E j \in Inboxes \ {i} : fetch[j].st = "run")
  /\ ev' = "other"
  /\ UNCHANGED <<now, remote, stored, viewVars, queryVars, usageVars, pureVars, autoCalls>>

\* The fetches that outlived their refresh have returned or rejected; nobody
\* reads what they fetched.
StrayFetchesEnd ==
  /\ ~effectPending
  /\ strayFetches
  /\ strayFetches' = FALSE
  /\ ev' = "other"
  /\ UNCHANGED <<now, remote, stored, viewVars, refreshVars, queryVars, usageVars, pureVars,
                 autoCalls>>

\* Promise.all resolves: merge, sort, cut, stamp, and call setIndexState.
JoinResults ==
  /\ ~effectPending
  /\ phase = "fetching"
  /\ \A i \in Inboxes : fetch[i].st = "done"
  /\ LET all == MergeResults(nextState, fetch, 1)
     IN  /\ merged' = all.items
         /\ nextState' =
              [all EXCEPT
                 !.items = Take(sortIndexedChatsByActivity(all.items),
                                MAX_INDEXD_CHATS_TARGET),
                 !.updatedAt = now]
  /\ phase' = "persisting"
  /\ ev' = "other"
  /\ UNCHANGED <<envVars, viewVars, queryVars, usageVars, pureVars, autoCalls,
                 refreshInFlight,
                 isIndexRefreshing, error, mode, fetch, atStart,
                 lastReturned>>

\* setIndexState resolves: the new state is stored and rendered.
PersistDone ==
  /\ ~effectPending
  /\ phase = "persisting"
  /\ stored' = nextState
  /\ loaded' = TRUE
  /\ Render(nextState)
  /\ error' = error
  /\ EndRefresh
  /\ ev' = "other"
  /\ UNCHANGED <<now, remote, strayFetches, initialRefreshDone, queryVars, usageVars, pureVars,
                 autoCalls>>

\* A rejected write whose state stays on screen.
PersistFailedRendered ==
  /\ ~effectPending
  /\ phase = "persisting"
  /\ Render(nextState)
  /\ error' = PersistError
  /\ EndRefresh
  /\ ev' = "other"
  /\ UNCHANGED <<envVars, loaded, initialRefreshDone, queryVars, usageVars, pureVars,
                 autoCalls>>

\* setIndexState rejects: catch sets the error.
PersistFailed ==
  /\ ~effectPending
  /\ phase = "persisting"
  /\ error' = PersistError
  /\ EndRefresh
  /\ ev' = "other"
  /\ UNCHANGED <<envVars, viewVars, queryVars, usageVars, pureVars, autoCalls>>

\* onSearchTextChange: the memo is evaluated again when the trimmed text
\* changed.
SetSearchText(text) ==
  /\ ~effectPending
  /\ searchText' = text
  /\ IF Trim(text) = Trim(searchText)
     THEN UNCHANGED <<chats, rankedAt>>
     ELSE EvaluateChats(indexState.items, text, filters)
  /\ ev' = "other"
  /\ UNCHANGED <<envVars, loaded, indexState, indexRef, initialRefreshDone,
                 effectPending, refreshVars, filters, usageVars, pureVars, autoCalls>>

\* setFilters: the memo is evaluated again when a filter changed.
SetFilters(f) ==
  /\ ~effectPending
  /\ filters' = f
  /\ IF f = filters
     THEN UNCHANGED <<chats, rankedAt>>
     ELSE EvaluateChats(indexState.items, searchText, f)
  /\ ev' = "other"
  /\ UNCHANGED <<envVars, loaded, indexState, indexRef, initialRefreshDone,
                 effectPending, refreshVars, searchText, usageVars, pureVars,
                 autoCalls>>

\* The inbox dropdown of the search bar.
SetInbox(value) == SetFilters([filters EXCEPT !.inbox = value])

\* The filter actions of a list item.
ToggleFilter(key) ==
  /\ Len(DisplayedChats) > 0
  /\ SetFilters([filters EXCEPT ![key] = ~@])
SetChatType(type) ==
  /\ Len(DisplayedChats) > 0
  /\ SetFilters([filters EXCEPT !.type = type])

\* visitItem: the visit raises the frecency of the conversation, which moves
\* to a place no lower than the one it had; how far is the library's choice.
VisitOrders(order, id) ==
  LET NotId(x) == x # id
      rest == SelectSeq(order, NotId)
      old == IF Len(rest) = Len(order) THEN Len(order) + 1
             ELSE CHOOSE k \in 1..Len(order) : order[k] = id
  IN  {SubSeq(rest, 1, p - 1) \o <<id>> \o SubSeq(rest, p, Len(rest)) :
         p \in 1..old}

\* A visit that puts the identifier in front without removing it.
NextRecentKeepsOld(id) ==
  SubSeq(<<id>> \o recentChatIDs, 1, Min(Len(recentChatIDs) + 1, RECENT_LIMIT))

\* The next of markChatVisited.
NextRecent(id) ==
  LET NotId(x) == x # id
      moved == <<id>> \o SelectSeq(recentChatIDs, NotId)
  IN  SubSeq(moved, 1, Min(Len(moved), RECENT_LIMIT))

\* markChatVisited, from an action of a displayed list item.
MarkChatVisited(chat) ==
  /\ ~effectPending
  /\ \E k \in 1..Len(DisplayedChats) : DisplayedChats[k] = chat
  /\ Len(visitLog) < MaxVisits
  /\ IF ~showSmartSections
     THEN UNCHANGED <<recentChatIDs, frecency, visitLog>>
     ELSE /\ frecency' \in VisitOrders(frecency, chat.id)
          /\ recentChatIDs' = NextRecent(chat.id)
          /\ visitLog' = Append(visitLog, chat.id)
  /\ ev' = "visit"
  /\ UNCHANGED <<envVars, viewVars, refreshVars, queryVars, showSmartSections,
                 showUnreadSection, autoCalls, pureVars>>

\* The Reset Smart Ranking action of a list item.
ResetRanking ==
  /\ ~effectPending
  /\ Len(DisplayedChats) > 0 /\ showSmartSections
  /\ frecency' = <<>>
  /\ ev' = "other"
  /\ UNCHANGED <<envVars, viewVars, refreshVars, queryVars, recentChatIDs,
                 showSmartSections, showUnreadSection, visitLog, autoCalls, pureVars>>

\* A clearing of the recent list that empties the stored index as well.
ClearRecentChatsAndStore ==
  /\ ~effectPending
  /\ Len(DisplayedChats) > 0 /\ showSmartSections
  /\ recentChatIDs' = <<>>
  /\ visitLog' = <<>>
  /\ stored' = defaultIndexState
  /\ ev' = "other"
  /\ UNCHANGED <<now, remote, strayFetches, viewVars, refreshVars, queryVars,
                 frecency, showSmartSections, showUnreadSection, autoCalls,
                 pureVars>>

\* The Clear Recent Chats action of a list item.
ClearRecentChats ==
  /\ ~effectPending
  /\ Len(DisplayedChats) > 0 /\ showSmartSections
  /\ recentChatIDs' = <<>>
  /\ visitLog' = <<>>
  /\ ev' = "other"
  /\ UNCHANGED <<envVars, viewVars, refreshVars, queryVars, frecency,
                 showSmartSections, showUnreadSection, autoCalls, pureVars>>

\* An hour passes.
Tick ==
  /\ ~effectPending
  /\ now < MaxTime
  /\ now' = now + 1
  /\ ev' = "other"
  /\ UNCHANGED <<remote, stored, strayFetches, viewVars, refreshVars,
                 queryVars, usageVars, pureVars, autoCalls>>

(***************************************************************************)
(* The view from its mount on: the stored state is still being read.       *)
(***************************************************************************)
InitCommon ==
  /\ now = StartTime
  /\ remote \in Remotes
  /\ stored \in StoredStates
  /\ strayFetches = FALSE
  /\ refreshInFlight = FALSE
  /\ isIndexRefreshing = FALSE
  /\ error = NoError
  /\ phase = "idle"
  /\ mode = "none"
  /\ nextState = defaultIndexState
  /\ fetch = [i \in Inboxes |-> IdleFetch]
  /\ merged = <<>>
  /\ atStart = NoSnapshot
  /\ lastReturned = Null
  /\ searchText = <<>>
  /\ filters = recentDefaultFilters
  /\ rankedAt = 0
  /\ recentChatIDs = <<>>
  /\ frecency = <<>>
  /\ visitLog = <<>>
  /\ showSmartSections = TRUE
  /\ showUnreadSection = FALSE
  /\ ev = "init"
  /\ autoCalls = <<>>
  /\ input = NoInput
  /\ output = NoOutput
  /\ thread = NoThread

Init ==
  /\ InitCommon
  /\ loaded = FALSE
  /\ indexState = defaultIndexState
  /\ indexRef = defaultIndexState
  /\ initialRefreshDone = FALSE
  /\ effectPending = TRUE
  /\ chats = <<>>

Next ==
  \/ StartupEffect
  \/ LoadStored
  \/ ManualRefresh
  \/ HandleArchiveChat
  \/ \E i \in Inboxes : PageResponse(i)
  \/ \E i \in Inboxes : PageFailure(i)
  \/ StrayFetchesEnd
  \/ JoinResults
  \/ PersistDone
  \/ PersistFailed
  \/ Tick

Spec == Init /\ [][Next]_vars

(***************************************************************************)
(* The refresh operation on a view whose stored state has been read.       *)
(***************************************************************************)
InitStore ==
  /\ InitCommon
  /\ loaded = TRUE
  /\ indexState = normalizeIndexState(stored)
  /\ indexRef = indexState
  /\ initialRefreshDone = TRUE
  /\ effectPending = FALSE
  /\ chats = RankChats(indexState.items, searchText, filters, now)

NextStore ==
  \/ \E m \in Modes : RequestRefresh(m)
  \/ StartupEffect
  \/ \E i \in Inboxes : PageResponse(i)
  \/ \E i \in Inboxes : PageFailure(i)
  \/ StrayFetchesEnd
  \/ JoinResults
  \/ PersistDone
  \/ PersistFailed
  \/ Tick

SpecStore == InitStore /\ [][NextStore]_vars

(***************************************************************************)
(* Searching and filtering a view whose index is at rest.                  *)
(***************************************************************************)
InitView ==
  /\ now = StartTime
  /\ remote = [i \in Inboxes |-> FeedEmpty]
  /\ stored \in ViewStates
  /\ strayFetches = FALSE
  /\ refreshInFlight = FALSE
  /\ isIndexRefreshing = FALSE
  /\ error = NoError
  /\ phase = "idle"
  /\ mode = "none"
  /\ nextState = defaultIndexState
  /\ fetch = [i \in Inboxes |-> IdleFetch]
  /\ merged = <<>>
  /\ atStart = NoSnapshot
  /\ lastReturned = Null
  /\ searchText = <<>>
  /\ filters = recentDefaultFilters
  /\ rankedAt = 0
  /\ recentChatIDs = <<>>
  /\ frecency = <<>>
  /\ visitLog = <<>>
  /\ showSmartSections = TRUE
  /\ showUnreadSection = FALSE
  /\ ev = "init"
  /\ autoCalls = <<"full">>
  /\ input = NoInput
  /\ output = NoOutput
  /\ thread = NoThread
  /\ loaded = TRUE
  /\ indexState = normalizeIndexState(stored)
  /\ indexRef = indexState
  /\ initialRefreshDone = TRUE
  /\ effectPending = FALSE
  /\ chats = RankChats(indexState.items, searchText, filters, now)

NextView ==
  \/ \E text \in Queries : SetSearchText(text)
  \/ \E value \in Inboxes \cup {"all"} : SetInbox(value)
  \/ \E key \in {"unreadOnly", "includeMuted"} : ToggleFilter(key)
  \/ \E type \in {"any", "single", "group"} : SetChatType(type)
  \/ Tick

SpecView == InitView /\ [][NextView]_vars

(***************************************************************************)
(* The ranking of conversations that differ in age and in hits: the same   *)
(* title, with and without a participant the query finds, inside and       *)
(* outside the 30 days of the recency boost.                               *)
(***************************************************************************)
MaryJane == <<"M", "a", "r", "y", " ", "J", "a", "n", "e">>
rNew == MkChat("n", Date(StartTime - 1), MaryJane, <<"w", "a">>, <<>>, "group")
rTwin ==
  MkChat("t", Date(StartTime - 1), MaryJane, <<"w", "a">>, <<pJaneDoe>>, "single")
rOld ==
  MkChat("o", Date(StartTime - 5), MaryJane, <<"w", "a">>, <<pJaneDoe>>, "single")
rEdge ==
  MkChat("e", Date(StartTime - RECENCY_DAYS * MS_PER_DAY + 1), MaryJane,
         <<"w", "a">>, <<pJaneDoe>>, "single")
rStale ==
  MkChat("s", Date(StartTime - (RECENCY_DAYS + 5) * MS_PER_DAY), MaryJane,
         <<"w", "a">>, <<>>, "group")
rStaler ==
  MkChat("r", Date(StartTime - (RECENCY_DAYS + 10) * MS_PER_DAY), MaryJane,
         <<"w", "a">>, <<pJaneDoe>>, "single")
RankItems ==
  <<IndexedChat(rNew, "primary"), IndexedChat(rTwin, "primary"),
    IndexedChat(rOld, "primary"), IndexedChat(rEdge, "primary"),
    IndexedChat(rStale, "primary"), IndexedChat(rStaler, "primary")>>
RankState == [items |-> RankItems, cursors |-> emptyCursors, updatedAt |-> StartTime]

InitRank ==
  /\ now = StartTime
  /\ remote = [i \in Inboxes |-> FeedEmpty]
  /\ stored = RankState
  /\ strayFetches = FALSE
  /\ refreshInFlight = FALSE
  /\ isIndexRefreshing = FALSE
  /\ error = NoError
  /\ phase = "idle"
  /\ mode = "none"
  /\ nextState = defaultIndexState
  /\ fetch = [i \in Inboxes |-> IdleFetch]
  /\ merged = <<>>
  /\ atStart = NoSnapshot
  /\ lastReturned = Null
  /\ searchText = <<>>
  /\ filters = recentDefaultFilters
  /\ rankedAt = 0
  /\ recentChatIDs = <<>>
  /\ frecency = <<>>
  /\ visitLog = <<>>
  /\ showSmartSections = TRUE
  /\ showUnreadSection = FALSE
  /\ ev = "init"
  /\ autoCalls = <<"full">>
  /\ input = NoInput
  /\ output = NoOutput
  /\ thread = NoThread
  /\ loaded = TRUE
  /\ indexState = normalizeIndexState(stored)
  /\ indexRef = indexState
  /\ initialRefreshDone = TRUE
  /\ effectPending = FALSE
  /\ chats = RankChats(indexState.items, searchText, filters, now)

SpecRank == InitRank /\ [][NextView]_vars

(***************************************************************************)
(* Visiting conversations and the sections, for every setting of the props *)
(* of the view.                                                            *)
(***************************************************************************)
SectionQueries == {<<>>, <<"bang">>, <<"j", "a", "n", "e">>}

InitSections ==
  /\ now = StartTime
  /\ remote = [i \in Inboxes |-> FeedEmpty]
  /\ stored \in ViewStates
  /\ strayFetches = FALSE
  /\ refreshInFlight = FALSE
  /\ isIndexRefreshing = FALSE
  /\ error = NoError
  /\ phase = "idle"
  /\ mode = "none"
  /\ nextState = defaultIndexState
  /\ fetch = [i \in Inboxes |-> IdleFetch]
  /\ merged = <<>>
  /\ atStart = NoSnapshot
  /\ lastReturned = Null
  /\ searchText = <<>>
  /\ filters = recentDefaultFilters
  /\ rankedAt = 0
  /\ recentChatIDs = <<>>
  /\ frecency = <<>>
  /\ visitLog = <<>>
  /\ showSmartSections \in BOOLEAN
  /\ showUnreadSection \in BOOLEAN
  /\ ev = "init"
  /\ autoCalls = <<"full">>
  /\ input = NoInput
  /\ output = NoOutput
  /\ thread = NoThread
  /\ loaded = TRUE
  /\ indexState = normalizeIndexState(stored)
  /\ indexRef = indexState
  /\ initialRefreshDone = TRUE
  /\ effectPending = FALSE
  /\ chats = RankChats(indexState.items, searchText, filters, now)

NextSections ==
  \/ \E text \in SectionQueries : SetSearchText(text)
  \/ \E k \in 1..Len(indexState.items) :
       MarkChatVisited(indexState.items[k].chat)
  \/ ResetRanking
  \/ ClearRecentChats
  \/ ToggleFilter("unreadOnly")

SpecSections == InitSections /\ [][NextSections]_vars

(***************************************************************************)
(* The view in use after its stored state has been read: refreshes,        *)
(* queries, filters and at most MaxUseVisits visits, interleaved.          *)
(***************************************************************************)
UseRemote == [i \in Inboxes |-> IF i = "primary" THEN FeedOnePage ELSE FeedEmpty]
UseStored ==
  [items |-> <<IndexedChat(cE, "primary")>>, cursors |-> StoredCursors,
   updatedAt |-> StartTime]
UseQueries == {<<>>, <<"bang">>}

InitUse ==
  /\ now = StartTime
  /\ remote = UseRemote
  /\ stored = UseStored
  /\ strayFetches = FALSE
  /\ loaded = TRUE
  /\ indexState = normalizeIndexState(stored)
  /\ indexRef = indexState
  /\ initialRefreshDone = TRUE
  /\ effectPending = FALSE
  /\ rankedAt = 0
  /\ refreshInFlight = FALSE
  /\ isIndexRefreshing = FALSE
  /\ error = NoError
  /\ phase = "idle"
  /\ mode = "none"
  /\ nextState = defaultIndexState
  /\ fetch = [i \in Inboxes |-> IdleFetch]
  /\ merged = <<>>
  /\ atStart = NoSnapshot
  /\ lastReturned = Null
  /\ searchText = <<>>
  /\ filters = recentDefaultFilters
  /\ chats = RankChats(indexState.items, searchText, filters, now)
  /\ recentChatIDs = <<>>
  /\ frecency = <<>>
  /\ visitLog = <<>>
  /\ showSmartSections = TRUE
  /\ showUnreadSection = FALSE
  /\ ev = "init"
  /\ autoCalls = <<>>
  /\ input = NoInput
  /\ output = NoOutput
  /\ thread = NoThread

NextUse ==
  \/ ManualRefresh
  \/ StartupEffect
  \/ \E i \in Inboxes : PageResponse(i)
  \/ \E i \in Inboxes : PageFailure(i)
  \/ StrayFetchesEnd
  \/ JoinResults
  \/ PersistDone
  \/ PersistFailed
  \/ \E text \in UseQueries : SetSearchText(text)
  \/ ToggleFilter("unreadOnly")
  \/ \E k \in 1..Len(indexState.items) :
       /\ Len(visitLog) < MaxUseVisits
       /\ MarkChatVisited(indexState.items[k].chat)
  \/ ResetRanking
  \/ ClearRecentChats

SpecUse == InitUse /\ [][NextUse]_vars

(***************************************************************************)
(* mergeIndexedChats on its own: the view is not mounted, the updates are  *)
(* drawn from the lists of at most MaxMergeLen entries and the base from   *)
(* those one entry shorter, and each action is one way of calling the      *)
(* function.                                                               *)
(***************************************************************************)
MergeEntries ==
  { IndexedChat(cA1, "primary"), IndexedChat(cA2, "archive"),
    IndexedChat(cB, "primary"), IndexedChat(cC, "low-priority") }
MergeListsTo(len) == UNION { [1..n -> MergeEntries] : n \in 0..len }
MergeLists == MergeListsTo(MaxMergeLen)

InitMerge ==
  /\ now = StartTime
  /\ remote = [i \in Inboxes |-> FeedEmpty]
  /\ stored = defaultIndexState
  /\ strayFetches = FALSE
  /\ loaded = FALSE
  /\ indexState = defaultIndexState
  /\ indexRef = defaultIndexState
  /\ initialRefreshDone = FALSE
  /\ effectPending = FALSE
  /\ chats = <<>>
  /\ rankedAt = 0
  /\ refreshInFlight = FALSE
  /\ isIndexRefreshing = FALSE
  /\ error = NoError
  /\ phase = "idle"
  /\ mode = "none"
  /\ nextState = defaultIndexState
  /\ fetch = [i \in Inboxes |-> IdleFetch]
  /\ merged = <<>>
  /\ atStart = NoSnapshot
  /\ lastReturned = Null
  /\ searchText = <<>>
  /\ filters = recentDefaultFilters
  /\ recentChatIDs = <<>>
  /\ frecency = <<>>
  /\ visitLog = <<>>
  /\ showSmartSections = TRUE
  /\ showUnreadSection = FALSE
  /\ ev = "init"
  /\ autoCalls = <<>>
  /\ input \in [of : {"merge"}, base : MergeListsTo(MaxMergeLen - 1),
                 updates : MergeLists, others : MergeLists]
  /\ output = NoOutput
  /\ thread = NoThread

\* mergeIndexedChats(base, updates)
MergeOnce ==
  /\ output' = [of |-> "once",
                items |-> mergeIndexedChats(input.base, input.updates)]
  /\ UNCHANGED <<envVars, viewVars, refreshVars, queryVars, usageVars, ev,
                 autoCalls, input, thread>>

\* mergeIndexedChats(mergeIndexedChats(base, updates), others)
MergeUpdatesFirst ==
  /\ output' = [of |-> "updatesFirst",
                items |-> mergeIndexedChats(
                            mergeIndexedChats(input.base, input.updates),
                            input.others)]
  /\ UNCHANGED <<envVars, viewVars, refreshVars, queryVars, usageVars, ev,
                 autoCalls, input, thread>>

\* mergeIndexedChats(mergeIndexedChats(base, others), updates)
MergeOthersFirst ==
  /\ output' = [of |-> "othersFirst",
                items |-> mergeIndexedChats(
                            mergeIndexedChats(input.base, input.others),
                            input.updates)]
  /\ UNCHANGED <<envVars, viewVars, refreshVars, queryVars, usageVars, ev,
                 autoCalls, input, thread>>

NextMerge ==
  \/ MergeOnce
  \/ MergeUpdatesFirst
  \/ MergeOthersFirst

SpecMerge == InitMerge /\ [][NextMerge]_vars

(***************************************************************************)
(* normalizeSearchValue on its own: the argument is any text of at most    *)
(* MaxTextLen characters; the function is applied to it, and then to its   *)
(* own result.                                                             *)
(***************************************************************************)
NormalizeChars ==
  {"A", "a", "E_acute", "e_acute", "acute", "ga", "dakuten", "bang", "pipe",
   "comma", " ", "tab", "nbsp"}
NormalizeTexts ==
  UNION { [1..n -> NormalizeChars] : n \in 0..MaxTextLen }

InitNormalize ==
  /\ now = StartTime
  /\ remote = [i \in Inboxes |-> FeedEmpty]
  /\ stored = defaultIndexState
  /\ strayFetches = FALSE
  /\ loaded = FALSE
  /\ indexState = defaultIndexState
  /\ indexRef = defaultIndexState
  /\ initialRefreshDone = FALSE
  /\ effectPending = FALSE
  /\ chats = <<>>
  /\ rankedAt = 0
  /\ refreshInFlight = FALSE
  /\ isIndexRefreshing = FALSE
  /\ error = NoError
  /\ phase = "idle"
  /\ mode = "none"
  /\ nextState = defaultIndexState
  /\ fetch = [i \in Inboxes |-> IdleFetch]
  /\ merged = <<>>
  /\ atStart = NoSnapshot
  /\ lastReturned = Null
  /\ searchText = <<>>
  /\ filters = recentDefaultFilters
  /\ recentChatIDs = <<>>
  /\ frecency = <<>>
  /\ visitLog = <<>>
  /\ showSmartSections = TRUE
  /\ showUnreadSection = FALSE
  /\ ev = "init"
  /\ autoCalls = <<>>
  /\ input \in [of : {"normalize"}, text : NormalizeTexts]
  /\ output = NoOutput
  /\ thread = NoThread

\* normalizeSearchValue(value)
Normalize ==
  /\ output = NoOutput
  /\ output' = [of |-> "once", value |-> normalizeSearchValue(input.text)]
  /\ UNCHANGED <<envVars, viewVars, refreshVars, queryVars, usageVars, ev,
                 autoCalls, input, thread>>

\* normalizeSearchValue applied to what it returned.
NormalizeAgain ==
  /\ output.of = "once"
  /\ output' = [of |-> "twice", previous |-> output.value,
                value |-> normalizeSearchValue(output.value)]
  /\ UNCHANGED <<envVars, viewVars, refreshVars, queryVars, usageVars, ev,
                 autoCalls, input, thread>>

NextNormalize ==
  \/ Normalize
  \/ NormalizeAgain

SpecNormalize == InitNormalize /\ [][NextNormalize]_vars

(***************************************************************************)
(* parseSearchTerms on its own: the argument is any text of at most        *)
(* MaxTextLen characters over the letters of the stop word, a capital, a   *)
(* space and a folded punctuation character.                               *)
(***************************************************************************)
TokenChars == {"a", "n", "d", "A", " ", "bang"}
TokenTexts == UNION { [1..n -> TokenChars] : n \in 0..MaxTextLen }

\* The view is not mounted and no refresh runs.
Unmounted ==
  /\ now = StartTime
  /\ remote = [i \in Inboxes |-> FeedEmpty]
  /\ stored = defaultIndexState
  /\ strayFetches = FALSE
  /\ loaded = FALSE
  /\ indexState = defaultIndexState
  /\ indexRef = defaultIndexState
  /\ initialRefreshDone = FALSE
  /\ effectPending = FALSE
  /\ chats = <<>>
  /\ rankedAt = 0
  /\ refreshInFlight = FALSE
  /\ isIndexRefreshing = FALSE
  /\ error = NoError
  /\ phase = "idle"
  /\ mode = "none"
  /\ nextState = defaultIndexState
  /\ fetch = [i \in Inboxes |-> IdleFetch]
  /\ merged = <<>>
  /\ atStart = NoSnapshot
  /\ lastReturned = Null
  /\ searchText = <<>>
  /\ filters = recentDefaultFilters
  /\ recentChatIDs = <<>>
  /\ frecency = <<>>
  /\ visitLog = <<>>
  /\ showSmartSections = TRUE
  /\ showUnreadSection = FALSE
  /\ ev = "init"
  /\ autoCalls = <<>>

InitTokenize ==
  /\ Unmounted
  /\ input \in [of : {"tokenize"}, text : TokenTexts]
  /\ output = NoOutput
  /\ thread = NoThread

\* parseSearchTerms(query)
Tokenize ==
  /\ output = NoOutput
  /\ output' = [of |-> "tokens", value |-> parseSearchTerms(input.text)]
  /\ UNCHANGED <<envVars, viewVars, refreshVars, queryVars, usageVars, ev,
                 autoCalls, input, thread>>

\* The required terms ThreadSearchIndex.search derives from the tokens.
RequireTerms ==
  /\ output.of = "tokens"
  /\ output' = [of |-> "required", tokens |-> output.value,
                value |-> SelectSeq(output.value, NotStopWord)]
  /\ UNCHANGED <<envVars, viewVars, refreshVars, queryVars, usageVars, ev,
                 autoCalls, input, thread>>

NextTokenize ==
  \/ Tokenize
  \/ RequireTerms

SpecTokenize == InitTokenize /\ [][NextTokenize]_vars

(***************************************************************************)
(* ChatThread: the messages of one chat, loaded page by page, for the      *)
(* query of its search bar.  The chat list view is not mounted.            *)
(***************************************************************************)
\* What the user may type into the search bar of the thread.
ThreadTexts == {<<>>, <<" ">>, <<"q">>}
\* The cursors of the pages of messages.
ThreadCursors == {Null, "m1", "m2"}

\* The message of the page the remote holds for the query at the cursor.
Message(trimmedQuery, cursor) == [query |-> trimmedQuery, before |-> cursor]

\* listChatMessages and searchMessages: three pages per query, the oldest
\* cursor of a page leading to the next one.
MessagePage(trimmedQuery, cursor) ==
  [items |-> <<Message(trimmedQuery, cursor)>>,
   hasMore |-> cursor # "m2",
   oldestCursor |-> IF cursor = Null THEN "m1"
                    ELSE IF cursor = "m1" THEN "m2" ELSE Null,
   nextCursor |-> Null,
   cursor |-> Null]

\* result.oldestCursor ?? result.nextCursor ?? result.cursor ?? null
NextThreadCursor(result) ==
  Coalesce(result.oldestCursor,
           Coalesce(result.nextCursor, Coalesce(result.cursor, Null)))

\* A call of loadFirstPage: the query of the render that made it, and
\* whether the effect passed isCancelled and has since been cleaned up.
FirstPageCall(trimmedQuery, byEffect) ==
  [fn |-> "loadFirstPage", trimmedQuery |-> trimmedQuery, cursor |-> Null,
   byEffect |-> byEffect, cancelled |-> FALSE]
\* A call of loadMore: the query and the cursor of the render that made it.
LoadMoreCall(trimmedQuery, cursor) ==
  [fn |-> "loadMore", trimmedQuery |-> trimmedQuery, cursor |-> cursor,
   byEffect |-> FALSE, cancelled |-> FALSE]

Without(calls, k) == SubSeq(calls, 1, k - 1) \o SubSeq(calls, k + 1, Len(calls))
\* The cleanup of the effect: cancelled = true for the call the effect made.
Cleanup(calls) ==
  [k \in 1..Len(calls) |->
     IF calls[k].byEffect THEN [calls[k] EXCEPT !.cancelled = TRUE]
     ELSE calls[k]]

ThreadFrame ==
  UNCHANGED <<envVars, viewVars, refreshVars, queryVars, usageVars, ev,
              autoCalls, input, output>>

\* The list items with MessageActions are rendered.
MessagesShown == Len(thread.messages) > 0
\* const showLoadMore = !isLoading && hasMore
showLoadMore == ~thread.isLoading /\ thread.hasMore

\* The first render and its effect: loadFirstPage is in flight.
MountedThread ==
  [NoThread EXCEPT !.isLoading = TRUE,
                   !.calls = <<FirstPageCall(<<>>, TRUE)>>]

InitThread ==
  /\ Unmounted
  /\ input = NoInput
  /\ output = NoOutput
  /\ thread = MountedThread

\* onSearchTextChange: setQuery; when the trimmed query changed the effect
\* is cleaned up and runs again.
SetQuery(text) ==
  /\ text # thread.query
  /\ IF Trim(text) = Trim(thread.query)
     THEN thread' = [thread EXCEPT !.query = text]
     ELSE /\ Len(thread.calls) < MaxCalls
          /\ thread' = [thread EXCEPT
                          !.query = text,
                          !.isLoading = TRUE,
                          !.error = Null,
                          !.calls = Append(Cleanup(thread.calls),
                                           FirstPageCall(Trim(text), TRUE))]
  /\ ThreadFrame

\* The Refresh action of a message: loadFirstPage without isCancelled.
RefreshThread ==
  /\ MessagesShown
  /\ Len(thread.calls) < MaxCalls
  /\ thread' = [thread EXCEPT
                  !.isLoading = TRUE,
                  !.error = Null,
                  !.calls = Append(thread.calls,
                                   FirstPageCall(Trim(thread.query), FALSE))]
  /\ ThreadFrame

\* The Load More action of a message or of the last list item: loadMore.
LoadMore ==
  /\ MessagesShown \/ showLoadMore
  /\ thread.hasMore /\ TruthyCursor(thread.cursor)
  /\ Len(thread.calls) < MaxCalls
  /\ Len(thread.messages) < MaxMessages
  /\ thread' = [thread EXCEPT
                  !.isLoadingMore = TRUE,
                  !.calls = Append(thread.calls,
                                   LoadMoreCall(Trim(thread.query),
                                                thread.cursor))]
  /\ ThreadFrame

\* The request of call k resolves.
ThreadResponse(k) ==
  LET call == thread.calls[k]
      result == MessagePage(call.trimmedQuery, call.cursor)
      rest == Without(thread.calls, k)
  IN  /\ thread' =
           IF call.fn = "loadFirstPage"
           THEN IF call.cancelled
                THEN [thread EXCEPT !.calls = rest]
                ELSE [thread EXCEPT
                        !.messages = result.items,
                        !.hasMore = result.hasMore,
                        !.cursor = NextThreadCursor(result),
                        !.isLoading = FALSE,
                        !.calls = rest]
           ELSE [thread EXCEPT
                   !.messages = thread.messages \o result.items,
                   !.hasMore = result.hasMore,
                   !.cursor = NextThreadCursor(result),
                   !.isLoadingMore = FALSE,
                   !.calls = rest]
      /\ ThreadFrame

\* The request of call k rejects.
ThreadFailure(k) ==
  LET call == thread.calls[k]
      rest == Without(thread.calls, k)
  IN  /\ thread' =
           IF call.fn = "loadFirstPage"
           THEN IF call.cancelled
                THEN [thread EXCEPT !.calls = rest]
                ELSE [thread EXCEPT
                        !.error = "failed",
                        !.isLoading = FALSE,
                        !.calls = rest]
           ELSE [thread EXCEPT !.isLoadingMore = FALSE, !.calls = rest]
      /\ ThreadFrame

NextThread ==
  \/ \E text \in ThreadTexts : SetQuery(text)
  \/ RefreshThread
  \/ LoadMore
  \/ \E k \in 1..Len(thread.calls) : ThreadResponse(k)
  \/ \E k \in 1..Len(thread.calls) : ThreadFailure(k)

SpecThread == InitThread /\ [][NextThread]_vars

(***************************************************************************)
(* Properties of the refresh.                                              *)
(***************************************************************************)
Ids(items) == {items[k].chat.id : k \in 1..Len(items)}
UniqueIds(items) == Cardinality(Ids(items)) = Len(items)
RefreshRequested == ev' \in {"start", "drop"}
PageRequestsUnchanged == fetch' = fetch /\ strayFetches' = strayFetches

\* C1: while a refresh is in flight a further refresh request is dropped: it
\* issues no page request and changes nothing of the refresh in flight; and
\* page requests of a new fetch sequence are only ever issued by the step of
\* a request made while no refresh was in flight, never later.
C1_SingleFlight ==
  [][/\ (refreshInFlight /\ RefreshRequested) =>
          /\ ev' = "drop"
          /\ PageRequestsUnchanged
          /\ UNCHANGED <<refreshVars, stored, indexState>>
     /\ (\E i \in Inboxes : fetch[i].st # "run" /\ fetch'[i].st = "run") =>
          ~refreshInFlight /\ ev' = "start"]_vars

\* C1 witness: a request was just dropped while page requests of the refresh
\* in flight are outstanding.
C1_Witness ==
  ev = "drop" /\ refreshInFlight /\ \E i \in Inboxes : fetch[i].st = "run"

\* C2: when a page request of any partition fails, the refresh ends with the
\* error set, nothing is written, and the stored and the rendered index
\* state are those from before the call.
C2_FailedFetchKeepsState ==
  [][(phase = "fetching" /\ phase' = "idle") =>
       /\ error'.kind = "fetch"
       /\ stored' = stored /\ stored' = atStart.disk
       /\ indexState' = indexState /\ indexState' = atStart.view]_vars

\* C2 witness: a fetch has failed on a later page, the other partitions
\* having returned all their pages, over a stored state that holds items.
C2_Witness ==
  /\ error.kind = "fetch" /\ error.page > 0 /\ phase = "idle"
  /\ ~strayFetches
  /\ stored.items # <<>>

\* C3: the guard is set exactly while refreshIndex runs and the busy flag
\* with it, whichever way the refresh ended; a request made while the guard
\* is clear starts a fetch sequence.
C3_GuardCleared ==
  [][/\ refreshInFlight' = (phase' # "idle")
     /\ isIndexRefreshing' = refreshInFlight'
     /\ (~refreshInFlight /\ RefreshRequested) =>
          /\ ev' = "start"
          /\ phase' = "fetching"
          /\ \A i \in Inboxes : fetch'[i].st = "run"]_vars

\* C3 witness: a refresh has ended by failing to persist, after all its
\* fetches had succeeded, and the guard and the busy flag are clear.
C3_Witness ==
  /\ phase = "idle" /\ error.kind = "persist"
  /\ ~refreshInFlight /\ ~isIndexRefreshing

\* C4: while a refresh is in flight the items the view reads are those of
\* the stored state.
C4_ReadersSeeCommitted == refreshInFlight => indexState.items = stored.items

\* C5: the stored and the rendered items hold every identifier at most
\* once, and so does the state a refresh is about to write.
C5_UniqueIds ==
  /\ UniqueIds(indexState.items)
  /\ UniqueIds(stored.items)
  /\ UniqueIds(nextState.items)

\* C5 witness: a full refresh is being written whose pages returned one
\* conversation twice within a partition and also in two partitions.
C5_Witness ==
  /\ phase = "persisting"
  /\ \E i \in Inboxes : ~UniqueIds(fetch[i].items)
  /\ \E i, j \in Inboxes :
       i # j /\ Ids(fetch[i].items) \cap Ids(fetch[j].items) # {}

\* C6: at most MAX_INDEXD_CHATS_TARGET items are stored and rendered, and of
\* the merged items those cut have a timestamp no later than any kept.
C6_CapKeepsNewest ==
  /\ Len(indexState.items) <= MAX_INDEXD_CHATS_TARGET
  /\ Len(stored.items) <= MAX_INDEXD_CHATS_TARGET
  /\ phase = "persisting" =>
       /\ Len(nextState.items) = Min(Len(merged), MAX_INDEXD_CHATS_TARGET)
       /\ \A k \in 1..Len(nextState.items) :
            \E j \in 1..Len(merged) : merged[j] = nextState.items[k]
       /\ \A j \in 1..Len(merged) :
            merged[j].chat.id \notin Ids(nextState.items) =>
              \A k \in 1..Len(nextState.items) :
                getChatTimestamp(merged[j].chat)
                  <= getChatTimestamp(nextState.items[k].chat)

\* C6 witness: the merged set exceeds the cap, with an item without a
\* usable timestamp among those cut.
C6_Witness ==
  /\ phase = "persisting"
  /\ Len(merged) > MAX_INDEXD_CHATS_TARGET
  /\ \E j \in 1..Len(merged) :
       /\ merged[j].chat.id \notin Ids(nextState.items)
       /\ merged[j].chat.lastActivity.kind # "date"

StartupPolicy(state, t) ==
  IF Len(state.items) = 0 \/ t - state.updatedAt > INDEX_REFRESH_MAX_AGE_MS
  THEN "full" ELSE "incremental"

\* C7: the mode of the startup refresh is chosen from the stored state.
C7_StartupFromStored ==
  [][Len(autoCalls') > Len(autoCalls) =>
       autoCalls'[Len(autoCalls')] = StartupPolicy(stored, now)]_vars

\* C8: the startup effect calls refreshIndex at most once.
C8_StartupOnce == Len(autoCalls) <= 1

\* C8 witness: the startup refresh has been written, the number of items
\* changed with it and the startup effect has run again.
C8_Witness ==
  /\ Len(autoCalls) = 1
  /\ indexState.items # <<>>
  /\ stored.updatedAt >= StartTime
  /\ ~effectPending
  /\ phase = "idle"

(***************************************************************************)
(* Properties of the search and the ranking.                               *)
(***************************************************************************)
QueryTokens == parseSearchTerms(Trim(searchText))
RequiredTokens ==
  {QueryTokens[k] : k \in 1..Len(QueryTokens)} \ STOP_WORDS
\* The term occurs in the normalized title, network or a participant.
TermMatchesChat(term, chat) ==
  LET fields == buildSearchFields(chat)
  IN  \/ IsSubstring(term, fields.title)
      \/ IsSubstring(term, fields.network)
      \/ \E k \in 1..Len(fields.participants) :
            IsSubstring(term, fields.participants[k])
ChatOf(id) ==
  (CHOOSE item \in {indexState.items[k] : k \in 1..Len(indexState.items)} :
     item.chat.id = id).chat
SearchResults ==
  search([k \in 1..Len(indexState.items) |->
            [id |-> indexState.items[k].chat.id,
             searchFields |-> indexState.items[k].searchFields]],
         Trim(searchText), SearchProperties)

\* C9: every conversation of the search result, and so of the ranked list
\* of a query with tokens, is matched by every token of the query that is
\* not a stop word, each on its title, its network or a participant.
C9_ConjunctiveTokens ==
  /\ \A k \in 1..Len(SearchResults) :
       \A term \in RequiredTokens :
         TermMatchesChat(term, ChatOf(SearchResults[k].id))
  /\ Len(QueryTokens) > 0 =>
       \A k \in 1..Len(chats) :
         \A term \in RequiredTokens : TermMatchesChat(term, chats[k])

\* C9 witness: the query has two required tokens, a conversation matched by
\* both is listed, and one that passes the filters and is matched by just one
\* of them, on its title, is not.
C9_Witness ==
  /\ Cardinality(RequiredTokens) = 2
  /\ Len(chats) > 0
  /\ \E k \in 1..Len(indexState.items) :
       LET item == indexState.items[k]
       IN  /\ PassesFilters(item, filters)
           /\ \E term \in RequiredTokens : IsSubstring(term, item.searchFields.title)
           /\ \E term \in RequiredTokens : ~TermMatchesChat(term, item.chat)
           /\ \A j \in 1..Len(chats) : chats[j].id # item.chat.id

Flag(b) == IF b THEN 1 ELSE 0
\* How many tokens of the query occur in the value, or in one of the values.
HitsIn(values) ==
  Cardinality({k \in 1..Len(QueryTokens) :
                 \E v \in 1..Len(values) : IsSubstring(QueryTokens[k], values[v])})
\* The keys of the ranking, in their order, for a ranking done at time t.
RankKeys(chat, t) ==
  LET fields == buildSearchFields(chat)
      query == normalizeSearchValue(Trim(searchText))
      days == RECENCY_DAYS * MS_PER_DAY
      age == t - getChatTimestamp(chat)
  IN  <<Flag(fields.title = query),
        Flag(StartsWith(fields.title, query)),
        IF age >= days THEN 0 ELSE days - age,
        HitsIn(<<fields.title>>),
        HitsIn(fields.participants),
        Flag(chat.type = "single"),
        HitsIn(<<fields.network>>),
        getChatTimestamp(chat)>>
\* a comes no later than b in the lexicographic order, greater keys first.
LexNoLater(a, b) ==
  \E k \in 1..(Len(a) + 1) :
    /\ \A i \in 1..(k - 1) : a[i] = b[i]
    /\ k <= Len(a) => a[k] > b[k]

\* C10: the ranked list of a query with tokens is in the lexicographic order
\* of exact title, title prefix, recency boost, title hits, participant
\* hits, single before group, network hits and timestamp; and a conversation
\* whose title starts with the query precedes every one equal in exactness
\* whose title does not.
C10_LexicographicRanking ==
  Len(QueryTokens) > 0 =>
    \A i, j \in 1..Len(chats) :
      /\ i < j => LexNoLater(RankKeys(chats[i], rankedAt), RankKeys(chats[j], rankedAt))
      /\ (/\ RankKeys(chats[i], rankedAt)[1] = RankKeys(chats[j], rankedAt)[1]
          /\ RankKeys(chats[i], rankedAt)[2] > RankKeys(chats[j], rankedAt)[2])
           => i < j

\* C10 witness: for the query "jane" the conversation titled "Jane Doe",
\* a prefix match that is no exact match, is listed before a conversation
\* with a higher recency boost whose title does not start with the query.
C10_Witness ==
  /\ normalizeSearchValue(Trim(searchText)) = <<"j", "a", "n", "e">>
  /\ \E i, j \in 1..Len(chats) :
       /\ i < j
       /\ chats[i].title = JaneDoe
       /\ RankKeys(chats[i], rankedAt)[1] = 0
       /\ RankKeys(chats[i], rankedAt)[2] = 1
       /\ RankKeys(chats[j], rankedAt)[2] = 0
       /\ RankKeys(chats[j], rankedAt)[3] > RankKeys(chats[i], rankedAt)[3]

TiesAboveLast(a, b) ==
  \A k \in 1..7 : RankKeys(a, rankedAt)[k] = RankKeys(b, rankedAt)[k]

Satisfying ==
  {indexState.items[k].chat : k \in
     {k \in 1..Len(indexState.items) :
        LET item == indexState.items[k]
        IN  /\ filters.inbox \in {"all", item.inbox}
            /\ filters.includeMuted \/ ~item.chat.isMuted
            /\ filters.unreadOnly => item.chat.unreadCount > 0
            /\ filters.type \in {"any", item.chat.type}}}

\* C12: for a query without tokens the search gives no result and no
\* scoring is done, and the ranked list holds exactly the cached
\* conversations that satisfy the filters, each once, latest timestamp
\* first.
C12_NoTokensListsFiltered ==
  Len(QueryTokens) = 0 =>
    /\ SearchResults = <<>>
    /\ rankedAt = 0
    /\ {chats[k] : k \in 1..Len(chats)} = Satisfying
    /\ Len(chats) = Cardinality(Satisfying)
    /\ \A i, j \in 1..Len(chats) :
         i < j => getChatTimestamp(chats[i]) >= getChatTimestamp(chats[j])

\* C12 witness: the search text holds only a character the normalizer folds
\* away, muted conversations are filtered out, a cached conversation of the
\* selected inbox is muted, and two others are listed.
C12_Witness ==
  /\ searchText # <<>> /\ Trim(searchText) # <<>> /\ Len(QueryTokens) = 0
  /\ ~filters.includeMuted
  /\ \E k \in 1..Len(indexState.items) :
       /\ indexState.items[k].chat.isMuted
       /\ filters.inbox \in {"all", indexState.items[k].inbox}
  /\ Len(chats) >= 2

(***************************************************************************)
(* Properties of the sections and of the recent list.                      *)
(***************************************************************************)
AboveOther ==
  IdsOf(Sections.Pinned) \cup IdsOf(Sections.Unread)
    \cup IdsOf(Sections.Recent) \cup IdsOf(Sections.Frequent)
TimesDisplayed(chat) ==
  Cardinality({k \in 1..Len(DisplayedChats) : DisplayedChats[k].id = chat.id})

\* C13: the Chats section holds the conversations of the ranked list that no
\* section above it displays, in ranked order, and every conversation of the
\* ranked list is displayed exactly once.
C13_SectionsPartition ==
  /\ LET NotAbove(chat) == chat.id \notin AboveOther
     IN  Sections.Chats = SelectSeq(chats, NotAbove)
  /\ \A k \in 1..Len(chats) : TimesDisplayed(chats[k]) = 1

\* The identifiers of a log of visits, each once, in the order of their last
\* visit, the latest first.
RECURSIVE LastVisitOrder(_)
LastVisitOrder(log) ==
  IF log = <<>> THEN <<>>
  ELSE LET id == log[Len(log)]
           NotId(x) == x # id
       IN  <<id>> \o LastVisitOrder(SelectSeq(SubSeq(log, 1, Len(log) - 1), NotId))

\* C14: the recent list holds the visited identifiers in the order of their
\* last visit, the latest first, each once, cut to RECENT_LIMIT entries; of
\* the visits c1, c2, c1 it is c1, c2.
C14_RecentList ==
  LET order == LastVisitOrder(visitLog)
  IN  /\ recentChatIDs = SubSeq(order, 1, Min(Len(order), RECENT_LIMIT))
      /\ Cardinality(recentIDs) = Len(recentChatIDs)
      /\ Len(recentChatIDs) <= RECENT_LIMIT
      /\ visitLog # <<>> => recentChatIDs[1] = visitLog[Len(visitLog)]
      /\ (/\ Len(visitLog) = 3
          /\ visitLog[1] = visitLog[3] /\ visitLog[1] # visitLog[2])
           => recentChatIDs = <<visitLog[1], visitLog[2]>>

\* C14 witness: a conversation was visited, then another, then the first
\* again.
C14_Witness ==
  /\ Len(visitLog) = 3
  /\ visitLog[1] = visitLog[3] /\ visitLog[1] # visitLog[2]
  /\ Len(recentChatIDs) = 2

\* C15: when the last refresh has ended in failure, the failure is shown and
\* the Refresh action is available.
C15_FailureShownWithRetry ==
  (~refreshInFlight /\ error # NoError) => (FailureShown /\ RefreshAvailable)


(***************************************************************************)
(* C16                                                                     *)
(***************************************************************************)
\* The entry a list holds last for an identifier.
LastEntry(items, id) ==
  LET Last == CHOOSE k \in 1..Len(items) :
                /\ items[k].chat.id = id
                /\ \A j \in (k + 1)..Len(items) : items[j].chat.id # id
  IN  items[Last]
Entries(items) == {items[k] : k \in 1..Len(items)}
\* The entries expected of a merge: for each identifier the entry of the
\* updates if they have one, else the entry of the base.
LastWriteWins(base, updates) ==
  {LastEntry(updates, id) : id \in Ids(updates)}
    \cup {LastEntry(base, id) : id \in Ids(base) \ Ids(updates)}

\* C16: mergeIndexedChats keeps one entry per identifier, the entry of the
\* updates wins for an identifier that is in both lists, and two update
\* lists of disjoint identifiers give the same set of entries in either
\* order.
C16_MergeLastWriteWins ==
  /\ output.of = "once" =>
        /\ UniqueIds(output.items)
        /\ Ids(output.items) = Ids(input.base) \cup Ids(input.updates)
        /\ Entries(output.items) = LastWriteWins(input.base, input.updates)
  /\ (/\ output.of \in {"updatesFirst", "othersFirst"}
      /\ Ids(input.updates) \cap Ids(input.others) = {}) =>
        /\ UniqueIds(output.items)
        /\ Entries(output.items) =
             LastWriteWins(input.base, input.updates \o input.others)
        /\ Entries(output.items) =
             LastWriteWins(input.base, input.others \o input.updates)

\* C16 witness: one version of a conversation was merged over another.
C16_Witness ==
  /\ output.of = "once"
  /\ input.base = <<IndexedChat(cA1, "primary")>>
  /\ input.updates = <<IndexedChat(cA2, "archive")>>
  /\ output.items = <<IndexedChat(cA2, "archive")>>


(***************************************************************************)
(* C17                                                                     *)
(***************************************************************************)
\* The letters String.toLowerCase changes.
UpperCaseLetters == {c \in NormalizeChars : ToLowerChar(c) # c}
\* The combining marks (general category M) among the characters: the acute
\* accent U+0301 and the voiced sound mark U+3099.
UnicodeMarks == {"acute", "dakuten"}
NoneOf(text, set) == \A k \in 1..Len(text) : text[k] \notin set
\* No leading or trailing space and no run of two spaces.
SingleSpaced(text) ==
  /\ text # <<>> => (text[1] # " " /\ text[Len(text)] # " ")
  /\ \A k \in 1..(Len(text) - 1) : ~(text[k] = " " /\ text[k + 1] = " ")
\* The output properties, for a given set of marks.
CleanOf(marks) ==
  /\ output.of = "once" =>
        /\ input.text = <<>> => output.value = <<>>
        /\ NoneOf(output.value, UpperCaseLetters)
        /\ NoneOf(output.value, marks)
        /\ NoneOf(output.value, FoldedPunctuation1 \cup FoldedPunctuation2)
        /\ NoneOf(output.value, Whitespace \ {" "})
        /\ SingleSpaced(output.value)
  /\ output.of = "twice" => output.value = output.previous

RefreshSucceeds(m) ==
  phase = "persisting" /\ mode = m /\ phase' = "idle" /\ error' = NoError
\* The entries the pages fetched for an inbox held.
Fetched(inbox) == Entries(fetch[inbox].items)
FetchedIds == UNION {Ids(fetch[i].items) : i \in Inboxes}
\* No page of the feed carries a newest or an oldest cursor.
NoCursors(feed) ==
  \A c \in RequestCursors :
    ~TruthyCursor(feed[c].newestCursor) /\ ~TruthyCursor(feed[c].oldestCursor)

\* C18: a full refresh that succeeds stores exactly the fetched
\* conversations, once each and within the cap, each as an entry one of its
\* partitions returned and tagged with that partition; nothing of the
\* previous state stays unless fetched again; a partition whose pages carry
\* no cursor has null cursors, whatever the previous state held.
C18_FullRefreshFromEmpty ==
  [][RefreshSucceeds("full") =>
       /\ indexState'.items = stored'.items
       /\ UniqueIds(stored'.items)
       /\ Ids(stored'.items) \subseteq FetchedIds
       /\ Len(stored'.items)
            = Min(Cardinality(FetchedIds), MAX_INDEXD_CHATS_TARGET)
       /\ \A k \in 1..Len(stored'.items) :
            LET item == stored'.items[k]
            IN  \E e \in Fetched(item.inbox) :
                  e.chat = item.chat /\ e.inbox = item.inbox
       /\ \A k \in 1..Len(atStart.disk.items) :
            atStart.disk.items[k].chat.id \notin FetchedIds =>
              atStart.disk.items[k].chat.id \notin Ids(stored'.items)
       /\ \A i \in Inboxes :
            NoCursors(remote[i]) =>
              stored'.cursors[i] = [newestCursor |-> Null, oldestCursor |-> Null]
     ]_vars

\* C18 witness: a full refresh is about to be written over a stored state
\* that holds two conversations and cursors for primary; its pages returned
\* neither conversation, and those of primary no cursor.
C18_Witness ==
  /\ phase = "persisting" /\ mode = "full"
  /\ atStart.disk.items = StoredItems
  /\ atStart.disk.cursors["primary"].newestCursor = "n0"
  /\ NoCursors(remote["primary"])
  /\ FetchedIds # {}
  /\ FetchedIds \cap Ids(StoredItems) = {}


(***************************************************************************)
(* C19                                                                     *)
(***************************************************************************)
\* The step on which the page request of an inbox is answered, in the given
\* mode.
PageAnswered(i, m) ==
  /\ phase = "fetching" /\ phase' = "fetching" /\ mode = m
  /\ fetch[i].st = "run" /\ fetch'[i] # fetch[i]
\* The page requests a fetch has issued so far.
Requests(f) == f.page + 1

\* C19: in a full refresh the fetch of a partition issues at most
\* INDEX_MAX_PAGES page requests, the first without a cursor and each later
\* one with the cursor the page before returned, and it ends on the first
\* page that reports no more pages; every answer ends the fetch or raises the
\* number of requests, so that the fetch ends whatever the remote answers.
C19_PagesBounded ==
  [][\A i \in Inboxes :
       /\ (mode' = "full" /\ fetch'[i].st \in {"run", "done"}) =>
            Requests(fetch'[i]) <= INDEX_MAX_PAGES
       /\ (ev' = "start" /\ mode' = "full") =>
            /\ fetch'[i].st = "run"
            /\ fetch'[i].page = 0 /\ fetch'[i].cursor = Null
       /\ PageAnswered(i, "full") =>
            LET response == remote[i][fetch[i].cursor]
            IN  /\ fetch'[i].st \in {"run", "done"}
                /\ ~response.hasMore => fetch'[i].st = "done"
                /\ fetch'[i].st = "done" =>
                     Requests(fetch'[i]) = Requests(fetch[i])
                /\ fetch'[i].st = "run" =>
                     /\ Requests(fetch'[i]) = Requests(fetch[i]) + 1
                     /\ fetch'[i].cursor # Null
                     /\ fetch'[i].cursor =
                          (IF response.oldestCursor # Null
                           THEN response.oldestCursor
                           ELSE IF response.nextCursor # Null
                                THEN response.nextCursor
                                ELSE response.cursor)
     ]_vars

\* C19 witness: the fetch of a partition whose remote reports more pages on
\* every page, with the same cursor, has ended at the cap, and the fetch of
\* another has followed the cursor of its first page to its last page.
C19_Witness ==
  /\ mode = "full" /\ phase = "fetching"
  /\ \E i \in Inboxes :
       /\ remote[i] = FeedLoop
       /\ fetch[i].st = "done"
       /\ Requests(fetch[i]) = INDEX_MAX_PAGES
  /\ \E i \in Inboxes :
       /\ remote[i] = FeedTwoPages
       /\ fetch[i].st = "done"
       /\ fetch[i].cursor = "k1"


(***************************************************************************)
(* C20                                                                     *)
(***************************************************************************)
\* The cursors of the page requests of a full fetch that begins with the
\* given cursor and has n requests left.
RECURSIVE CursorsRequested(_, _, _)
CursorsRequested(feed, cursor, n) ==
  LET page == feed[cursor]
      next == IF page.oldestCursor # Null THEN page.oldestCursor
              ELSE IF page.nextCursor # Null THEN page.nextCursor
              ELSE page.cursor
  IN  IF n = 0 THEN <<>>
      ELSE <<cursor>> \o (IF page.hasMore /\ next # Null
                          THEN CursorsRequested(feed, next, n - 1) ELSE <<>>)
\* The pages a full fetch of the inbox reads, in order.
PagesFetched(i) ==
  LET cursors == CursorsRequested(remote[i], Null, INDEX_MAX_PAGES)
  IN  [k \in 1..Len(cursors) |-> remote[i][cursors[k]]]
\* The oldest cursor of the last of the pages that carries one.
LastOldestCursor(pages) ==
  LET with == {k \in 1..Len(pages) : pages[k].oldestCursor # Null}
  IN  IF with = {} THEN Null
      ELSE pages[CHOOSE k \in with : \A j \in with : j <= k].oldestCursor

\* C20 as stated: a full refresh that succeeds stores, for each partition,
\* the newest cursor of the first page fetched and the oldest cursor of the
\* last page fetched.
C20_CursorsFirstAndLast ==
  [][RefreshSucceeds("full") =>
       \A i \in Inboxes :
         LET pages == PagesFetched(i)
         IN  /\ Len(pages) = Requests(fetch[i])
             /\ stored'.cursors[i].newestCursor = pages[1].newestCursor
             /\ stored'.cursors[i].oldestCursor
                  = pages[Len(pages)].oldestCursor]_vars

\* C20 amended: the oldest cursor stored is that of the last fetched page
\* that carries one, null when no page does.
C20_CursorsFirstAndLastGiven ==
  [][RefreshSucceeds("full") =>
       \A i \in Inboxes :
         LET pages == PagesFetched(i)
         IN  /\ Len(pages) = Requests(fetch[i])
             /\ stored'.cursors[i].newestCursor = pages[1].newestCursor
             /\ stored'.cursors[i].oldestCursor = LastOldestCursor(pages)
     ]_vars

\* C20 witness: a full refresh is about to be written in which one partition
\* was fetched in two pages that both carry cursors, and another in two
\* pages of which the last carries none.
C20_Witness ==
  /\ phase = "persisting" /\ mode = "full"
  /\ remote["primary"] = FeedTwoPages
  /\ nextState.cursors["primary"] = [newestCursor |-> "n2", oldestCursor |-> "o2"]
  /\ remote["archive"] = FeedTail
  /\ nextState.cursors["archive"] = [newestCursor |-> "n4", oldestCursor |-> "k1"]


(***************************************************************************)
(* C21                                                                     *)
(***************************************************************************)
\* The index state without the derived search fields of its items.
Plain(state) ==
  [items |-> [k \in 1..Len(state.items) |->
                [chat |-> state.items[k].chat, inbox |-> state.items[k].inbox]],
   cursors |-> state.cursors,
   updatedAt |-> state.updatedAt]

\* C21: an incremental refresh takes the stored state as its base, begins
\* the fetch of each partition at the newest page, and issues at most
\* INDEX_MAX_PAGES_INCREMENTAL page requests per partition.
C21_IncrementalFromCommitted ==
  [][\A i \in Inboxes :
       /\ (ev' = "start" /\ mode' = "incremental") =>
            /\ Plain(nextState') = Plain(stored)
            /\ Plain(nextState') = Plain(indexState)
            /\ fetch'[i].st = "run"
            /\ fetch'[i].page = 0 /\ fetch'[i].cursor = Null
       /\ (mode' = "incremental" /\ fetch'[i].st \in {"run", "done"}) =>
            Requests(fetch'[i]) <= INDEX_MAX_PAGES_INCREMENTAL
       /\ PageAnswered(i, "incremental") =>
            /\ fetch'[i].st \in {"run", "done"}
            /\ Requests(fetch'[i]) <= Requests(fetch[i]) + 1
     ]_vars

\* C21 witness: the fetch of an incremental refresh over a stored state with
\* items has ended on a page that reports more pages.
C21_Witness ==
  /\ mode = "incremental" /\ phase = "fetching"
  /\ nextState.items # <<>>
  /\ \E i \in Inboxes :
       /\ fetch[i].st = "done"
       /\ remote[i][Null].hasMore


(***************************************************************************)
(* C22                                                                     *)
(***************************************************************************)
\* The step on which a refresh ends, in success or in failure.
RefreshEnds == phase # "idle" /\ phase' = "idle"

\* C22: a refresh that succeeds stores and renders a state whose updatedAt
\* is the time at which the refresh started; a refresh that fails leaves
\* updatedAt as it was.
C22_UpdatedAtIsStartTime ==
  [][RefreshEnds =>
       IF error' = NoError
       THEN /\ stored'.updatedAt = atStart.at
            /\ Plain(indexState') = Plain(stored')
       ELSE /\ stored'.updatedAt = stored.updatedAt
            /\ indexState'.updatedAt = indexState.updatedAt]_vars


(***************************************************************************)
(* C23                                                                     *)
(***************************************************************************)
\* The inboxes whose fetch returned the conversation in the refresh in
\* flight.
Returners(id) == {i \in Inboxes : id \in Ids(fetch[i].items)}

\* C23: a refresh that succeeds tags every entry with the inbox of the fetch
\* that returned the conversation most recently: the one that returned last
\* when several fetches of the refresh returned it, and the only one that
\* returned it otherwise, whatever its tag was before.
C23_TagOfLatestFetch ==
  [][(RefreshSucceeds("full") \/ RefreshSucceeds("incremental")) =>
       \A k \in 1..Len(stored'.items) :
         LET item == stored'.items[k]
             returners == Returners(item.chat.id)
         IN  /\ lastReturned \in returners => item.inbox = lastReturned
             /\ Cardinality(returners) = 1 => item.inbox \in returners
     ]_vars


(***************************************************************************)
(* C24                                                                     *)
(***************************************************************************)
\* The pieces of the normalized text between spaces.
Pieces(text) == Split(normalizeSearchValue(text))
KeptPiece(t) == t # <<>> /\ t \notin STOP_WORDS

\* C24: the tokens of a text are the pieces of its normalized form between
\* spaces without the empty ones and without the stop words; no token is
\* empty, none is a stop word, and a text of stop words only has no token.
C24_TokensWithoutStopWords ==
  output.of = "tokens" =>
    /\ output.value = SelectSeq(Pieces(input.text), KeptPiece)
    /\ \A k \in 1..Len(output.value) :
         output.value[k] # <<>> /\ output.value[k] \notin STOP_WORDS


(***************************************************************************)
(* C25                                                                     *)
(***************************************************************************)
\* The conversation of the ranked list with the identifier.
Ranked(id) == CHOOSE chat \in {chats[j] : j \in 1..Len(chats)} : chat.id = id
\* The place of a conversation in the ranked list.
RankOf(chat) == CHOOSE j \in 1..Len(chats) : chats[j] = chat

\* C25: the Recent section holds the conversations of the ranked list whose
\* identifier is in the recent list and which the Pinned and the Unread
\* section do not show, in the order of the recent list, the latest visit
\* first; a recent identifier that is not in the ranked list adds nothing.
C25_RecentSection ==
  showSections =>
    LET Shown(id) == /\ id \in IdsOf(chats)
                     /\ id \notin IdsOf(Sections.Pinned)
                     /\ id \notin IdsOf(Sections.Unread)
        ids == SelectSeq(Take(LastVisitOrder(visitLog), RECENT_LIMIT), Shown)
    IN  /\ Len(Sections.Recent) = Len(ids)
        /\ \A k \in 1..Len(ids) : Sections.Recent[k] = Ranked(ids[k])

\* C25 witness: the Recent section shows two conversations in the order of
\* their visits, which is not their order in the ranked list.
C25_Witness ==
  /\ showSections
  /\ Len(Sections.Recent) = 2
  /\ RankOf(Sections.Recent[1]) > RankOf(Sections.Recent[2])

\* C25 witness: the section is shown while a recent identifier is not in the
\* ranked list, and another is.
C25_WitnessNotRanked ==
  /\ showSections
  /\ Len(Sections.Recent) = 1
  /\ \E k \in 1..Len(recentChatIDs) : recentChatIDs[k] \notin IdsOf(chats)


(***************************************************************************)
(* C26                                                                     *)
(***************************************************************************)
\* C26: when the fetches have succeeded and the write fails, the error is
\* set, the guard and the busy flag are cleared, and the state the view and
\* the search read is the one from before, with one entry per identifier and
\* within the cap; a request made after that starts a refresh, and a refresh
\* that succeeds after that writes its state to the store.
C26_PersistFailureRecovers ==
  [][/\ (phase = "persisting" /\ phase' = "idle" /\ error' # NoError) =>
          /\ error'.kind = "persist"
          /\ ~refreshInFlight' /\ ~isIndexRefreshing'
          /\ indexState' = indexState
          /\ stored' = stored
          /\ UniqueIds(indexState'.items)
          /\ Len(indexState'.items) <= MAX_INDEXD_CHATS_TARGET
     /\ (error.kind = "persist" /\ RefreshRequested) =>
          ev' = "start" /\ atStart'.afterFailedWrite
     /\ (atStart.afterFailedWrite /\ RefreshEnds /\ error' = NoError) =>
          /\ stored' = nextState
          /\ Plain(indexState') = Plain(stored')
          /\ UniqueIds(stored'.items)
     ]_vars

\* C26 witness: a refresh that began after a failed write is about to write
\* items other than the stored ones.
C26_Witness ==
  /\ phase = "persisting"
  /\ atStart.afterFailedWrite
  /\ Plain(nextState).items # Plain(stored).items


(***************************************************************************)
(* C27                                                                     *)
(***************************************************************************)
\* The step on which setIndexState resolves.
Commit == phase = "persisting" /\ phase' = "idle" /\ error' = NoError

\* C27: the stored index state and the one the view holds (items, cursors,
\* updatedAt) change only on the step that commits a successful refresh, and
\* then to the state that refresh built; a visit, a clearing of the recent
\* list, a reset of the ranking, a query change, a filter change, a dropped
\* request and a refresh that ends with an error leave them as they were; a
\* visit changes nothing but the usage state.
C27_CacheStateFrame ==
  [][/\ (stored' # stored \/ indexState' # indexState \/ indexRef' # indexRef) =>
          /\ Commit
          /\ stored' = nextState
          /\ Plain(indexState') = Plain(nextState)
          /\ indexRef' = indexState'
     /\ (\/ ev' \in {"visit", "drop"}
         \/ recentChatIDs' # recentChatIDs
         \/ frecency' # frecency
         \/ searchText' # searchText
         \/ filters' # filters
         \/ (phase # "idle" /\ phase' = "idle" /\ error' # NoError)) =>
          UNCHANGED <<stored, indexState, indexRef>>
     /\ ev' = "visit" =>
          UNCHANGED <<envVars, viewVars, refreshVars, queryVars, autoCalls,
                      showSmartSections, showUnreadSection>>
     ]_vars

\* C27 witness: a conversation was visited while a refresh was fetching, and
\* the stored state is one an earlier refresh has committed.
C27_Witness ==
  /\ ev = "visit"
  /\ recentChatIDs # <<>>
  /\ phase = "fetching"
  /\ stored # UseStored


(***************************************************************************)
(* C28                                                                     *)
(***************************************************************************)
\* The two conversations agree on exact title and on title prefix.
SameTitleStatus(a, b) ==
  /\ RankKeys(a, rankedAt)[1] = RankKeys(b, rankedAt)[1]
  /\ RankKeys(a, rankedAt)[2] = RankKeys(b, rankedAt)[2]
\* The last activity is less than 30 days before the ranking.
ActiveLately(chat) ==
  rankedAt - getChatTimestamp(chat) < RECENCY_DAYS * MS_PER_DAY
\* Both are 30 days old or more, or both were active at the same instant.
EqualBoost(a, b) ==
  \/ getChatTimestamp(a) = getChatTimestamp(b)
  \/ ~ActiveLately(a) /\ ~ActiveLately(b)
\* Title hits, participant hits, single before group, network hits.
HitKeys(chat) == SubSeq(RankKeys(chat, rankedAt), 4, 7)
HitsFavour(a, b) == HitKeys(a) # HitKeys(b) /\ LexNoLater(HitKeys(a), HitKeys(b))

\* C28: in the ranked list of a query with tokens, of two conversations
\* equal in exact title and title prefix that were both active less than 30
\* days before the ranking, at different instants, the one active later
\* comes first, whatever the hits are; one active less than 30 days before
\* comes before one that was not; and the hits and single before group
\* order two conversations only when both are 30 days old or more or both
\* were active at the same instant.
C28_RecencyBeforeHits ==
  Len(QueryTokens) > 0 =>
    \A i, j \in 1..Len(chats) :
      SameTitleStatus(chats[i], chats[j]) =>
        /\ (/\ ActiveLately(chats[i]) /\ ActiveLately(chats[j])
            /\ getChatTimestamp(chats[i]) > getChatTimestamp(chats[j])) => i < j
        /\ (ActiveLately(chats[i]) /\ ~ActiveLately(chats[j])) => i < j
        /\ (EqualBoost(chats[i], chats[j]) /\ HitsFavour(chats[i], chats[j]))
             => i < j
        /\ (i < j /\ HitsFavour(chats[j], chats[i]))
             => ~EqualBoost(chats[i], chats[j])

\* C28 witness: the ranked list holds two conversations active lately at
\* different instants, the later one first although the hits favour the
\* other; and two conversations 30 days old or more, the one the hits
\* favour first although it is the older.
C28_Witness ==
  /\ Len(QueryTokens) > 0
  /\ \E i, j \in 1..Len(chats) :
       /\ i < j
       /\ SameTitleStatus(chats[i], chats[j])
       /\ ActiveLately(chats[i]) /\ ActiveLately(chats[j])
       /\ getChatTimestamp(chats[i]) > getChatTimestamp(chats[j])
       /\ HitsFavour(chats[j], chats[i])
  /\ \E i, j \in 1..Len(chats) :
       /\ i < j
       /\ SameTitleStatus(chats[i], chats[j])
       /\ ~ActiveLately(chats[i]) /\ ~ActiveLately(chats[j])
       /\ getChatTimestamp(chats[i]) < getChatTimestamp(chats[j])
       /\ HitsFavour(chats[i], chats[j])


(***************************************************************************)
(* C29                                                                     *)
(***************************************************************************)
\* The entry without its derived search fields.
PlainEntry(item) == [chat |-> item.chat, inbox |-> item.inbox]
PlainEntries(items) == {PlainEntry(items[k]) : k \in 1..Len(items)}
\* The entries stored when the refresh began that no fetched page returned.
NotReturned ==
  {e \in PlainEntries(atStart.disk.items) : e.chat.id \notin FetchedIds}

\* C29: an incremental refresh that succeeds drops a stored conversation
\* only by the cut to the cap: when the merged list is within the cap every
\* identifier stored before is stored after; and an entry that no fetched
\* page returned is, when still stored, the entry it was, with its
\* conversation data and its inbox tag.
C29_IncrementalKeepsEntries ==
  [][RefreshSucceeds("incremental") =>
       /\ Len(merged) <= MAX_INDEXD_CHATS_TARGET =>
            /\ Ids(atStart.disk.items) \subseteq Ids(stored'.items)
            /\ NotReturned \subseteq PlainEntries(stored'.items)
       /\ \A e \in NotReturned :
            e.chat.id \in Ids(stored'.items) => e \in PlainEntries(stored'.items)
     ]_vars

\* C29 witness: an incremental refresh is about to store a merged list
\* within the cap that holds fetched conversations and an entry of the
\* archive that no fetched page returned.
C29_Witness ==
  /\ phase = "persisting" /\ mode = "incremental"
  /\ Len(merged) <= MAX_INDEXD_CHATS_TARGET
  /\ FetchedIds # {}
  /\ \E e \in NotReturned : e.inbox = "archive"


(***************************************************************************)
(* C30                                                                     *)
(***************************************************************************)
\* No message is listed twice.
EachPageOnce ==
  \A j, k \in 1..Len(thread.messages) :
    thread.messages[j] = thread.messages[k] => j = k
\* Every listed message is of a page fetched for the query on screen.
PagesOfCurrentQuery ==
  \A k \in 1..Len(thread.messages) :
    thread.messages[k].query = Trim(thread.query)

\* C30: in the thread view, once no request is in flight, the message list
\* holds only pages fetched for the query on screen, each at most once:
\* an answer that arrives after the query changed is discarded, and two
\* load-more requests made before the first one resolves add their page
\* once.
C30_ThreadShowsCurrentPages ==
  thread.calls = <<>> => PagesOfCurrentQuery /\ EachPageOnce

====
